---- MODULE Spec2Model ----
(***************************************************************************)
(* Measurement over / between pins (bfoster59/MOP).                        *)
(*                                                                         *)
(* A model of the numerical core in src/MOP.py (involute primitives, the   *)
(* Newton-Raphson inversion, the spur and helical solvers) and of the      *)
(* adapters that dispatch to it.                                           *)
(*                                                                         *)
(* Python floats are modelled as fixed-point numbers: the integer v stands *)
(* for the real v / Scale.  Like a double, a model float has a largest     *)
(* finite magnitude (MaxF) beyond which arithmetic overflows to +-Inf, a   *)
(* NaN, and never rounds a non-zero product or a cosine to exactly zero.   *)
(* A Python exception raised inside an expression (ZeroDivisionError, the  *)
(* ValueError "math domain error" of math.cos(inf)) is an error value that *)
(* every later operation propagates.                                       *)
(***************************************************************************)
EXTENDS Integers, Sequences, FiniteSets, TLC

\* ---------------------------------------------------------------------
\* Floating point (fixed point with saturation)
\* ---------------------------------------------------------------------

\* resolution of a model float: v stands for v / Scale
Scale == 1000

\* largest finite magnitude of a model float (sys.float_info.max)
MaxF == 1000 * Scale

PosInf == MaxF + 1
NegInf == 0 - (MaxF + 1)
NaN == MaxF + 2
\* ZeroDivisionError raised by "/" on floats
ZeroDivErr == MaxF + 3
\* ValueError("math domain error") raised by math.cos / math.tan on +-inf
DomainErr == MaxF + 4

One == Scale

IsErr(v) == v = ZeroDivErr \/ v = DomainErr
IsNaN(v) == v = NaN
IsInf(v) == v = PosInf \/ v = NegInf
IsFinite(v) == (0 - MaxF) <= v /\ v <= MaxF

\* the error value among two operands (the left one is evaluated first)
ErrOf(a, b) == IF IsErr(a) THEN a ELSE b

Abs(n) == IF n < 0 THEN 0 - n ELSE n
Sgn(n) == IF n < 0 THEN 0 - 1 ELSE IF n > 0 THEN 1 ELSE 0

\* integer quotient rounded to nearest, d > 0
RoundDiv(n, d) == Sgn(n) * ((Abs(n) + (d \div 2)) \div d)

\* overflow of a finite intermediate value to +-inf
Sat(v) == IF v > MaxF THEN PosInf ELSE IF v < 0 - MaxF THEN NegInf ELSE v

FNeg(a) ==
    IF IsErr(a) \/ IsNaN(a) THEN a ELSE 0 - a

FAbs(a) ==
    IF IsErr(a) \/ IsNaN(a) THEN a ELSE Abs(a)

FAdd(a, b) ==
    IF IsErr(a) \/ IsErr(b) THEN ErrOf(a, b)
    ELSE IF IsNaN(a) \/ IsNaN(b) THEN NaN
    ELSE IF IsInf(a) /\ IsInf(b) THEN (IF a = b THEN a ELSE NaN)
    ELSE IF IsInf(a) THEN a
    ELSE IF IsInf(b) THEN b
    ELSE Sat(a + b)

FSub(a, b) == FAdd(a, FNeg(b))

\* |a| * |b| / Scale for finite a, b, without leaving 32 bits
MulMag(a, b) ==
    LET ma == Abs(a)
        mb == Abs(b)
        p  == (ma \div Scale) * mb + RoundDiv((ma % Scale) * mb, Scale)
    IN  IF p = 0 THEN 1 ELSE p

FMul(a, b) ==
    IF IsErr(a) \/ IsErr(b) THEN ErrOf(a, b)
    ELSE IF IsNaN(a) \/ IsNaN(b) THEN NaN
    ELSE IF a = 0 \/ b = 0 THEN (IF IsInf(a) \/ IsInf(b) THEN NaN ELSE 0)
    ELSE IF IsInf(a) \/ IsInf(b) THEN (IF Sgn(a) = Sgn(b) THEN PosInf ELSE NegInf)
    ELSE Sat(Sgn(a) * Sgn(b) * MulMag(a, b))

\* Python float division: x / 0.0 raises ZeroDivisionError
FDiv(a, b) ==
    IF IsErr(a) \/ IsErr(b) THEN ErrOf(a, b)
    ELSE IF IsNaN(a) \/ IsNaN(b) THEN NaN
    ELSE IF b = 0 THEN ZeroDivErr
    ELSE IF IsInf(a) THEN (IF IsInf(b) THEN NaN
                           ELSE IF Sgn(a) = Sgn(b) THEN PosInf ELSE NegInf)
    ELSE IF IsInf(b) THEN 0
    ELSE IF a = 0 THEN 0
    ELSE LET q == RoundDiv(Abs(a) * Scale, Abs(b))
         IN  Sat(Sgn(a) * Sgn(b) * (IF q = 0 THEN 1 ELSE q))

\* a < b on floats: every comparison with NaN is False
FLess(a, b) == ~IsNaN(a) /\ ~IsNaN(b) /\ a < b
FLeq(a, b) == ~IsNaN(a) /\ ~IsNaN(b) /\ a <= b

\* pi, to the resolution of the model
PiFix == RoundDiv(31416 * Scale, 10000)
HalfPi == RoundDiv(15708 * Scale, 10000)
TwoPi == RoundDiv(62832 * Scale, 10000)

\* Taylor polynomials on [0, pi/2], argument and result in model units
SinPoly(r) ==
    LET r2 == (r * r) \div Scale
        r3 == (r2 * r) \div Scale
        r5 == (r3 * r2) \div Scale
        r7 == (r5 * r2) \div Scale
        r9 == (r7 * r2) \div Scale
    IN  r - RoundDiv(r3, 6) + RoundDiv(r5, 120) - RoundDiv(r7, 5040) + RoundDiv(r9, 362880)

CosPoly(r) ==
    LET r2 == (r * r) \div Scale
        r4 == (r2 * r2) \div Scale
        r6 == (r4 * r2) \div Scale
        r8 == (r6 * r2) \div Scale
    IN  Scale - RoundDiv(r2, 2) + RoundDiv(r4, 24) - RoundDiv(r6, 720) + RoundDiv(r8, 40320)

\* sine and cosine of a finite angle x >= 0: reduce to [0, 2 pi), then to
\* [0, pi/2]
SinReduced(x) ==
    LET r == x % TwoPi
    IN  IF r <= HalfPi THEN SinPoly(r)
        ELSE IF r <= PiFix THEN SinPoly(PiFix - r)
        ELSE IF r <= PiFix + HalfPi THEN 0 - SinPoly(r - PiFix)
        ELSE 0 - SinPoly(TwoPi - r)

CosReduced(x) ==
    LET r == x % TwoPi
        c == IF r <= HalfPi THEN CosPoly(r)
             ELSE IF r <= PiFix THEN 0 - CosPoly(PiFix - r)
             ELSE IF r <= PiFix + HalfPi THEN 0 - CosPoly(r - PiFix)
             ELSE CosPoly(TwoPi - r)
    IN  IF c # 0 THEN c
        ELSE IF r <= HalfPi \/ r > PiFix + HalfPi THEN 1 ELSE 0 - 1

\* sin(-x) = -sin(x) and cos(-x) = cos(x), exactly
SinFinite(x) == IF x < 0 THEN 0 - SinReduced(0 - x) ELSE SinReduced(x)

CosFinite(x) == CosReduced(Abs(x))

\* math.cos: NaN for NaN, ValueError for +-inf, never exactly 0
FCos(x) ==
    IF IsErr(x) \/ IsNaN(x) THEN x
    ELSE IF IsInf(x) THEN DomainErr
    ELSE CosFinite(x)

\* math.tan
FTan(x) ==
    IF IsErr(x) \/ IsNaN(x) THEN x
    ELSE IF IsInf(x) THEN DomainErr
    ELSE FDiv(SinFinite(x), CosFinite(x))

\* ---------------------------------------------------------------------
\* Involute helpers
\* ---------------------------------------------------------------------

\* inv(x) = math.tan(x) - x
inv(x) == FSub(FTan(x), x)

\* range(250): the cap on Newton iterations
MaxIter == 250

\* abs(df) < 1e-18 and abs(step) < 1e-16, abs(f) < 1e-16: both tolerances lie
\* below the resolution of a model float, so "below tolerance" is "below one
\* unit"
DfTol == 1
StepTol == 1

\* mutant: the loop runs one body too many (range(251))
LoopExhausted_OffByOne(i) == i > MaxIter

\* for iteration in range(250): the loop is left once 250 bodies have run
LoopExhausted(i) == i >= MaxIter

\* mutant: the body has no "if abs(df) < 1e-18: break"
NewtonStep_NoGuard(x, y) ==
    LET cos_x == FCos(x)
        tan_x == FTan(x)
        f == FSub(FSub(tan_x, x), y)
        cos_x_squared == FMul(cos_x, cos_x)
        df == FSub(FDiv(One, cos_x_squared), One)
        step == FDiv(f, df)
        x_new == FSub(x, step)
    IN  IF IsErr(cos_x) THEN [exit |-> "raise", err |-> cos_x, x |-> x]
        ELSE IF IsErr(df) THEN [exit |-> "raise", err |-> df, x |-> x]
        ELSE IF IsErr(step) THEN [exit |-> "raise", err |-> step, x |-> x]
        ELSE IF FLess(FAbs(step), StepTol) /\ FLess(FAbs(f), StepTol)
             THEN [exit |-> "break", err |-> 0, x |-> x_new]
        ELSE [exit |-> "continue", err |-> 0, x |-> x_new]

\* One body of the Newton-Raphson loop of inv_inverse, started at x.
\* exit is "raise" (err is the exception), "break" or "continue"; x is the
\* value of x when the body ends.
NewtonStep(x, y) ==
    LET cos_x == FCos(x)
        tan_x == FTan(x)
        f == FSub(FSub(tan_x, x), y)
        cos_x_squared == FMul(cos_x, cos_x)
        df == FSub(FDiv(One, cos_x_squared), One)
        step == FDiv(f, df)
        x_new == FSub(x, step)
    IN  IF IsErr(cos_x) THEN [exit |-> "raise", err |-> cos_x, x |-> x]
        ELSE IF IsErr(df) THEN [exit |-> "raise", err |-> df, x |-> x]
        ELSE IF FLess(FAbs(df), DfTol) THEN [exit |-> "break", err |-> 0, x |-> x]
        ELSE IF IsErr(step) THEN [exit |-> "raise", err |-> step, x |-> x]
        ELSE IF FLess(FAbs(step), StepTol) /\ FLess(FAbs(f), StepTol)
             THEN [exit |-> "break", err |-> 0, x |-> x_new]
        ELSE [exit |-> "continue", err |-> 0, x |-> x_new]

\* The state of a call of inv_inverse: pc is "loop" while the for loop runs,
\* "returned" after return x, "raised" when an exception left the function;
\* iteration counts the loop bodies run so far.
LoopStart(x0) ==
    [pc |-> "loop", x |-> x0, iteration |-> 0, err |-> 0]

\* One step of the for loop: leave it when range(250) is exhausted, else run
\* one body.
LoopBody(s, y) ==
    IF s.pc # "loop" THEN s
    ELSE IF LoopExhausted(s.iteration) THEN [s EXCEPT !.pc = "returned"]
    ELSE LET b == NewtonStep(s.x, y)
         IN  [pc |-> IF b.exit = "raise" THEN "raised"
                     ELSE IF b.exit = "break" THEN "returned"
                     ELSE "loop",
              x |-> b.x,
              iteration |-> s.iteration + 1,
              err |-> b.err]

\* eight steps of the loop at once (keeps the evaluation stack shallow)
LoopBody8(s, y) ==
    LoopBody(LoopBody(LoopBody(LoopBody(
    LoopBody(LoopBody(LoopBody(LoopBody(s, y), y), y), y), y), y), y), y)

\* the loop run to its end
RECURSIVE NewtonLoop(_, _)
NewtonLoop(s, y) ==
    IF s.pc # "loop" THEN s ELSE NewtonLoop(LoopBody8(s, y), y)

\* inv_inverse(y, x0): solve tan(x) - x = y by Newton-Raphson from x0;
\* the value returned, or the error value of the exception raised
inv_inverse(y, x0) ==
    LET s == NewtonLoop(LoopStart(x0), y)
    IN  IF s.pc = "raised" THEN s.err ELSE s.x

\* the default seed x0 = 0.5
DefaultSeed == Scale \div 2

\* ---------------------------------------------------------------------
\* Angles
\* ---------------------------------------------------------------------

\* deg * (PI_HIGH_PRECISION / 180.0)
DegToRad(a) ==
    IF ~IsFinite(a) THEN FMul(a, RoundDiv(PiFix, 180))
    ELSE IF Abs(a) > 600 * Scale THEN FMul(a, RoundDiv(PiFix, 180))
    ELSE RoundDiv(a * PiFix, 180 * Scale)

\* rad * (180.0 / PI_HIGH_PRECISION)
RadToDeg(r) ==
    IF ~IsFinite(r) THEN FMul(r, RoundDiv(180 * Scale * Scale, PiFix))
    ELSE IF Abs(r) > 10 * Scale THEN FMul(r, RoundDiv(180 * Scale * Scale, PiFix))
    ELSE RoundDiv(r * 180 * Scale, PiFix)

\* the angle in [lo, hi] whose tangent is nearest to v, by bisection
RECURSIVE AtanBisect(_, _, _)
AtanBisect(v, lo, hi) ==
    IF hi - lo <= 1
    THEN (IF Abs(FTan(hi) - v) < Abs(FTan(lo) - v) THEN hi ELSE lo)
    ELSE LET mid == lo + ((hi - lo) \div 2)
         IN  IF FTan(mid) < v THEN AtanBisect(v, mid, hi)
             ELSE AtanBisect(v, lo, mid)

\* math.atan: defined for every float, +-pi/2 at +-inf
FAtan(v) ==
    IF IsErr(v) \/ IsNaN(v) THEN v
    ELSE IF v = PosInf THEN HalfPi
    ELSE IF v = NegInf THEN 0 - HalfPi
    ELSE IF v = 0 THEN 0
    ELSE IF v > 0 THEN AtanBisect(v, 0, HalfPi - 1)
    ELSE 0 - AtanBisect(0 - v, 0, HalfPi - 1)

\* ---------------------------------------------------------------------
\* Core calculation
\* ---------------------------------------------------------------------

\* the exceptions a solver call can end with
InvalidParameter == "ValueError: All inputs must be positive"
MathDomainError == "ValueError: math domain error"
ZeroDivisionError == "ZeroDivisionError"

ExcOf(v) == IF v = ZeroDivErr THEN ZeroDivisionError ELSE MathDomainError

NoResult == [method |-> "none"]

\* A finished call: status "returned" with the Result, or "raised" with the
\* exception; steps lists, in order, the computation stages that ran.
Returned(res, steps) ==
    [status |-> "returned", exc |-> "none", result |-> res, steps |-> steps]

Raised(exc, steps) ==
    [status |-> "raised", exc |-> exc, result |-> NoResult, steps |-> steps]

\* no call was made
NoOutcome == [status |-> "none", exc |-> "none", result |-> NoResult, steps |-> <<>>]

\* float(z) of the integer tooth count
ToFloat(z) == Sat(z * Scale)

\* if z <= 0 or DP <= 0 or d <= 0 or t <= 0: raise ValueError(...)
SpurRejects(z, DP, alpha_deg, t, d) ==
    z <= 0 \/ FLeq(DP, 0) \/ FLeq(d, 0) \/ FLeq(t, 0)

\* mutant: the parity test is inverted (z % 2 == 1)
IsEven_Inverted(z) == z % 2 = 1

\* z % 2 == 0
IsEven(z) == z % 2 = 0

\* mutant: the factor 2 of the half angle is lost (cos(pi / z))
OddFactor_FullAngle(z) == FCos(FDiv(PiFix, ToFloat(z)))

\* factor = math.cos(PI_HIGH_PRECISION / (2.0 * z_precise))
OddFactor(z) == FCos(FDiv(PiFix, FMul(2 * Scale, ToFloat(z))))

\* mutant: the labels of the wire naming are used ("2-wire" / "3-wire")
MethodOf_WireNaming(z) == IF IsEven(z) THEN "2-wire" ELSE "3-wire"

\* method = "2-pin" / method = "odd tooth"
MethodOf(z) == IF IsEven(z) THEN "2-pin" ELSE "odd tooth"

FactorOf(z) == IF IsEven(z) THEN One ELSE OddFactor(z)

\* x / 2.0 only lowers the exponent of a binary float and is exact: the
\* quotient is kept together with the half unit a model float cannot hold
HalfOf(a) == IF IsFinite(a) THEN <<a \div 2, a % 2>> ELSE <<a, 0>>

\* h * 2.0, of a value h = x / 2.0: exact as well
TwiceOf(h) == IF IsFinite(h[1]) THEN 2 * h[1] + h[2] ELSE h[1]

\* the stages of a spur call that ran, given the values computed
SpurSteps(inv_beta, beta) ==
    IF IsErr(inv_beta) THEN <<"geometry">>
    ELSE IF IsErr(beta) THEN <<"geometry", "inv_inverse">>
    ELSE <<"geometry", "inv_inverse", "measurement">>

\* Measurement Over Pins (MOP) for external spur gears
mow_spur_external_dp(z, DP, alpha_deg, t, d) ==
    IF SpurRejects(z, DP, alpha_deg, t, d) THEN Raised(InvalidParameter, <<>>)
    ELSE
    LET z_precise == ToFloat(z)
        alpha == DegToRad(alpha_deg)
        Dp == FDiv(z_precise, DP)
        Db == FMul(Dp, FCos(alpha))
        E == FDiv(PiFix, z_precise)
        inv_alpha == inv(alpha)
        inv_beta == FAdd(FAdd(FSub(FDiv(t, Dp), E), inv_alpha), FDiv(d, Db))
        beta == inv_inverse(inv_beta, DefaultSeed)
        C2 == FDiv(Db, FCos(beta))
        factor == FactorOf(z)
        MOW == IF IsEven(z) THEN FAdd(C2, d) ELSE FAdd(FMul(C2, factor), d)
    IN  IF IsErr(MOW) THEN Raised(ExcOf(MOW), SpurSteps(inv_beta, beta))
        ELSE Returned([method |-> MethodOf(z), MOW |-> MOW,
                       Dp |-> Dp, Db |-> Db, E |-> E,
                       inv_alpha |-> inv_alpha, inv_beta |-> inv_beta,
                       beta_rad |-> beta, beta_deg |-> RadToDeg(beta),
                       C2 |-> C2, factor |-> factor],
                      SpurSteps(inv_beta, beta))

\* Measurement Between Pins (MBP) for internal spur gears
mbp_spur_internal_dp(z, DP, alpha_deg, s, d) ==
    IF SpurRejects(z, DP, alpha_deg, s, d) THEN Raised(InvalidParameter, <<>>)
    ELSE
    LET z_precise == ToFloat(z)
        alpha == DegToRad(alpha_deg)
        Dp == FDiv(z_precise, DP)
        Db == FMul(Dp, FCos(alpha))
        E == FDiv(PiFix, z_precise)
        inv_alpha == inv(alpha)
        circular_pitch == FDiv(PiFix, DP)
        space_width_calc == FSub(circular_pitch, s)
        inv_beta == FAdd(FSub(FSub(FDiv(PiFix, z_precise),
                                   FDiv(space_width_calc, Dp)),
                              FDiv(d, Db)),
                         inv_alpha)
        beta == inv_inverse(inv_beta, DefaultSeed)
        pin_center_diameter == FDiv(Db, FCos(beta))
        R_pin_center == HalfOf(pin_center_diameter)
        factor == FactorOf(z)
        MBP == IF IsEven(z) THEN FSub(pin_center_diameter, d)
               ELSE FSub(FMul(factor, pin_center_diameter), d)
    IN  IF IsErr(MBP) THEN Raised(ExcOf(MBP), SpurSteps(inv_beta, beta))
        ELSE Returned([method |-> MethodOf(z), MOW |-> MBP,
                       Dp |-> Dp, Db |-> Db, E |-> E,
                       inv_alpha |-> inv_alpha, inv_beta |-> inv_beta,
                       beta_rad |-> beta, beta_deg |-> RadToDeg(beta),
                       C2 |-> TwiceOf(R_pin_center), factor |-> factor],
                      SpurSteps(inv_beta, beta))

\* ---------------------------------------------------------------------
\* Helical gears
\* ---------------------------------------------------------------------

\* 0.01 degrees
HelixThreshold == Scale \div 100

\* mutant: the comparison is inverted (abs(helix_deg) > 0.01)
CoreIsSpur_Inverted(helix_deg) == FLess(HelixThreshold, FAbs(helix_deg))

\* abs(helix_deg) < 0.01: "essentially spur gear", the test of the core
CoreIsSpur(helix_deg) == FLess(FAbs(helix_deg), HelixThreshold)

\* helical_conversions: (trans_pa_deg, trans_dp, base_helix_deg, lead_coeff)
helical_conversions(normal_pa_deg, helix_deg, normal_dp) ==
    IF CoreIsSpur(helix_deg)
    THEN [trans_pa_deg |-> normal_pa_deg, trans_dp |-> normal_dp,
          base_helix_deg |-> 0, lead_coeff |-> 0]
    ELSE
    LET helix_rad == DegToRad(helix_deg)
        normal_pa_rad == DegToRad(normal_pa_deg)
        trans_pa_rad == FAtan(FDiv(FTan(normal_pa_rad), FCos(helix_rad)))
        base_helix_rad == FAtan(FMul(FTan(helix_rad), FCos(trans_pa_rad)))
    IN  [trans_pa_deg |-> RadToDeg(trans_pa_rad),
         trans_dp |-> FMul(normal_dp, FCos(helix_rad)),
         base_helix_deg |-> RadToDeg(base_helix_rad),
         lead_coeff |-> FTan(helix_rad)]

\* mutant: the dimension is multiplied by cos(helix) instead of divided
TransverseDimension_Multiplied(t, helix_deg) == FMul(t, FCos(DegToRad(helix_deg)))

\* normal_thickness / cos(helix_rad)
TransverseDimension(t, helix_deg) == FDiv(t, FCos(DegToRad(helix_deg)))

\* mutant: the sign of the helix angle is dropped (abs(helix_deg))
HelicalAttributes_AbsHelix(conv, normal_DP, normal_alpha_deg, helix_deg) ==
    [helix_deg |-> FAbs(helix_deg),
     normal_pa_deg |-> normal_alpha_deg,
     normal_dp |-> normal_DP,
     trans_pa_deg |-> conv.trans_pa_deg,
     trans_dp |-> conv.trans_dp,
     base_helix_deg |-> conv.base_helix_deg,
     helical_correction |-> 0]

\* result.helix_deg = ..., result.helical_correction = 0.0: the attributes
\* the helical branch stores on the Result of its spur call
HelicalAttributes(conv, normal_DP, normal_alpha_deg, helix_deg) ==
    [helix_deg |-> helix_deg,
     normal_pa_deg |-> normal_alpha_deg,
     normal_dp |-> normal_DP,
     trans_pa_deg |-> conv.trans_pa_deg,
     trans_dp |-> conv.trans_dp,
     base_helix_deg |-> conv.base_helix_deg,
     helical_correction |-> 0]

\* the helical branch, shared by both helical solvers; spur(...) is the
\* outcome of the spur call on the transverse parameters
HelicalBranch(conv, trans_dim, spur, normal_DP, normal_alpha_deg, helix_deg) ==
    LET pre == <<"helical_conversions", "transverse_dimension">>
    IN  IF IsErr(conv.trans_pa_deg) THEN Raised(ExcOf(conv.trans_pa_deg), pre)
        ELSE IF IsErr(conv.trans_dp) THEN Raised(ExcOf(conv.trans_dp), pre)
        ELSE IF IsErr(conv.base_helix_deg) THEN Raised(ExcOf(conv.base_helix_deg), pre)
        ELSE IF IsErr(trans_dim) THEN Raised(ExcOf(trans_dim), pre)
        ELSE IF spur.status = "raised" THEN Raised(spur.exc, pre \o spur.steps)
        ELSE Returned(HelicalAttributes(conv, normal_DP, normal_alpha_deg, helix_deg)
                          @@ spur.result,
                      pre \o spur.steps \o <<"helical_attributes">>)

\* Measurement Over Pins for helical external gears
mow_helical_external_dp(z, normal_DP, normal_alpha_deg, t, d, helix_deg) ==
    IF CoreIsSpur(helix_deg)
    THEN mow_spur_external_dp(z, normal_DP, normal_alpha_deg, t, d)
    ELSE LET conv == helical_conversions(normal_alpha_deg, helix_deg, normal_DP)
             trans_tooth_thickness == TransverseDimension(t, helix_deg)
         IN  HelicalBranch(conv, trans_tooth_thickness,
                 mow_spur_external_dp(z, conv.trans_dp, conv.trans_pa_deg,
                                      trans_tooth_thickness, d),
                 normal_DP, normal_alpha_deg, helix_deg)

\* Measurement Between Pins for helical internal gears
mbp_helical_internal_dp(z, normal_DP, normal_alpha_deg, s, d, helix_deg) ==
    IF CoreIsSpur(helix_deg)
    THEN mbp_spur_internal_dp(z, normal_DP, normal_alpha_deg, s, d)
    ELSE LET conv == helical_conversions(normal_alpha_deg, helix_deg, normal_DP)
             trans_space_width == TransverseDimension(s, helix_deg)
         IN  HelicalBranch(conv, trans_space_width,
                 mbp_spur_internal_dp(z, conv.trans_dp, conv.trans_pa_deg,
                                      trans_space_width, d),
                 normal_DP, normal_alpha_deg, helix_deg)

\* ---------------------------------------------------------------------
\* "Best wire" rule of thumb
\* ---------------------------------------------------------------------

\* n / 1000 as a model float
Milli(n) == RoundDiv(n * Scale, 1000)

\* C_low, A_low = 1.728, 14.5 and C_high, A_high = 1.70, 25.0
C_low == Milli(1728)
A_low == Milli(14500)
C_high == Milli(1700)
A_high == Milli(25000)

\* m * v for the slope m = (C_high - C_low) / (A_high - A_low): the slope is
\* smaller than the resolution of a model float and is kept as the ratio
\* <<numerator, denominator>>
RatioTimes(m, v) ==
    IF IsErr(v) \/ IsNaN(v) THEN v
    ELSE IF IsInf(v) THEN FMul(v, m[1])
    ELSE Sat(RoundDiv(m[1] * v, m[2]))

\* mutant: the constants of the 20 degree and the 14.5 degree buckets are
\* exchanged
ShopConstant_SwappedBuckets(a) ==
    IF FLeq(Milli(19000), a) /\ FLeq(a, Milli(21000)) THEN Milli(1728)
    ELSE IF FLeq(Milli(24000), a) /\ FLeq(a, Milli(26000)) THEN Milli(1700)
    ELSE IF FLeq(Milli(14000), a) /\ FLeq(a, Milli(15000)) THEN Milli(1680)
    ELSE FAdd(C_low, RatioTimes(<<C_high - C_low, A_high - A_low>>,
                                FSub(a, A_low)))

\* the if / elif / else chain of best_pin_rule: the shop constant C
ShopConstant(a) ==
    IF FLeq(Milli(19000), a) /\ FLeq(a, Milli(21000)) THEN Milli(1680)
    ELSE IF FLeq(Milli(24000), a) /\ FLeq(a, Milli(26000)) THEN Milli(1700)
    ELSE IF FLeq(Milli(14000), a) /\ FLeq(a, Milli(15000)) THEN Milli(1728)
    ELSE FAdd(C_low, RatioTimes(<<C_high - C_low, A_high - A_low>>,
                                FSub(a, A_low)))

\* best_pin_rule(DP, alpha_deg): C / DP
best_pin_rule(DP, alpha_deg) == FDiv(ShopConstant(alpha_deg), DP)

\* ---------------------------------------------------------------------
\* CLI
\* ---------------------------------------------------------------------

\* Python None (an absent --d or --helix)
None == 0 - (MaxF + 5)

SystemExit == "SystemExit: --d is required unless you enable --best-pin rule"

\* is_helical = abs(helix_deg) > 0.01, the test of run_single
RunSingleIsHelical(helix_deg) == FLess(HelixThreshold, FAbs(helix_deg))

\* helix_deg = getattr(args, 'helix', 0.0) or 0.0
HelixOrZero(helix) == IF helix = None THEN 0 ELSE helix

\* the core function run_single dispatches to
RunSingleTarget(internal, helix_deg) ==
    IF internal
    THEN (IF RunSingleIsHelical(helix_deg) THEN "mbp_helical_internal_dp"
          ELSE "mbp_spur_internal_dp")
    ELSE (IF RunSingleIsHelical(helix_deg) THEN "mow_helical_external_dp"
          ELSE "mow_spur_external_dp")

\* run_single(args): the outcome of the core call whose result it prints, or
\* the exception that ends it before that call
run_single(z, dp, pa, t, d_arg, helix, best_pin, internal) ==
    LET d == IF d_arg # None THEN d_arg
             ELSE IF best_pin = "rule" THEN best_pin_rule(dp, pa)
             ELSE None
        helix_deg == HelixOrZero(helix)
        target == RunSingleTarget(internal, helix_deg)
    IN  IF d = None THEN Raised(SystemExit, <<>>)
        ELSE IF IsErr(d) THEN Raised(ExcOf(d), <<"best_pin_rule">>)
        ELSE IF target = "mbp_helical_internal_dp"
             THEN mbp_helical_internal_dp(z, dp, pa, t, d, helix_deg)
        ELSE IF target = "mbp_spur_internal_dp"
             THEN mbp_spur_internal_dp(z, dp, pa, t, d)
        ELSE IF target = "mow_helical_external_dp"
             THEN mow_helical_external_dp(z, dp, pa, t, d, helix_deg)
        ELSE mow_spur_external_dp(z, dp, pa, t, d)

\* ---------------------------------------------------------------------
\* CSV batch (run_csv)
\* ---------------------------------------------------------------------

\* a cell whose text int() / float() cannot convert ("abc")
Unparsable == 0 - (MaxF + 6)

\* round(x, digits), for a model float of three decimals
RoundTo(v, digits) ==
    IF ~IsFinite(v) THEN v
    ELSE IF digits = 0 THEN RoundDiv(v, Scale) * Scale
    ELSE IF digits = 1 THEN RoundDiv(v, Scale \div 10) * (Scale \div 10)
    ELSE IF digits = 2 THEN RoundDiv(v, Scale \div 100) * (Scale \div 100)
    ELSE v

\* the messages of the exceptions a row can end with
PinMissing == "pin diameter 'd' missing and --best-pin not set"
BadLiteral == "invalid literal for int() with base 10"

\* str(e) of the exception a core call raised
MessageOf(exc) ==
    IF exc = InvalidParameter THEN "All inputs must be positive"
    ELSE IF exc = MathDomainError THEN "math domain error"
    ELSE IF exc = ZeroDivisionError THEN "float division by zero"
    ELSE exc

\* rows_out.append({"z": row.get("z"), "error": f"row {i}: {e}"})
ErrorRow(row, i, msg) ==
    [kind |-> "error", i |-> i, z |-> row.z, error |-> msg,
     d |-> None, method |-> "none", measurement |-> 0]

\* the keys of the dict appended for a row
RowKeys(r, internal) ==
    IF r.kind = "error" THEN {"z", "error"}
    ELSE {"z", "dp", "pa", "t", "d", "method",
          IF internal THEN "mbp" ELSE "mop", "Dp", "Db", "beta_deg", "C2"}

\* the body of the for loop of run_csv for row number i: the dict appended
\* to rows_out
CsvRow(row, i, best_pin, digits, internal) ==
    IF row.z = Unparsable THEN ErrorRow(row, i, BadLiteral)
    ELSE IF row.d = None /\ best_pin # "rule" THEN ErrorRow(row, i, PinMissing)
    ELSE
    LET d == IF row.d # None THEN row.d ELSE best_pin_rule(row.dp, row.pa)
        o == IF internal THEN mbp_spur_internal_dp(row.z, row.dp, row.pa, row.t, d)
             ELSE mow_spur_external_dp(row.z, row.dp, row.pa, row.t, d)
    IN  IF IsErr(d) THEN ErrorRow(row, i, MessageOf(ExcOf(d)))
        ELSE IF o.status = "raised" THEN ErrorRow(row, i, MessageOf(o.exc))
        ELSE [kind |-> "result", i |-> i, z |-> row.z, error |-> "none",
              d |-> d, method |-> o.result.method,
              measurement |-> RoundTo(o.result.MOW, digits)]

\* run_csv(in_path, out_path, best_pin, digits, internal): rows_out after
\* the loop, the header and the rows of the output file, and the exception
\* that ended the call ("none" when it returned). DictWriter.writerows stops
\* at the first dict with a key outside fieldnames.
run_csv(rows, best_pin, digits, internal) ==
    LET rows_out == [i \in 1..Len(rows) |->
                        CsvRow(rows[i], i, best_pin, digits, internal)]
    IN  IF rows_out = <<>>
        THEN [rows_out |-> rows_out, header |-> {}, written |-> <<>>,
              exc |-> "IndexError: list index out of range"]
        ELSE
        LET fieldnames == RowKeys(rows_out[1], internal)
            bad == {i \in 1..Len(rows_out) :
                       ~(RowKeys(rows_out[i], internal) \subseteq fieldnames)}
            written ==
                IF bad = {} THEN rows_out
                ELSE SubSeq(rows_out, 1,
                            (CHOOSE i \in bad : \A j \in bad : i <= j) - 1)
        IN  [rows_out |-> rows_out, header |-> fieldnames, written |-> written,
             exc |-> IF written = rows_out THEN "none"
                     ELSE "ValueError: dict contains fields not in fieldnames"]

\* ---------------------------------------------------------------------
\* GearMetrologyAgent (gear_metrology_agent.py)
\* ---------------------------------------------------------------------

RuntimeError == "RuntimeError: Gear metrology calculation failed"

\* GearParameters.__post_init__: the ValueError it raises, or "none"
GearParametersError(teeth, diametral_pitch, pressure_angle, helix_angle) ==
    IF teeth <= 0 THEN "ValueError: Tooth count must be positive"
    ELSE IF FLeq(diametral_pitch, 0)
         THEN "ValueError: Diametral pitch/module must be positive"
    ELSE IF ~(FLeq(0, pressure_angle) /\ FLeq(pressure_angle, 45 * Scale))
         THEN "ValueError: Pressure angle must be between 0 and 45"
    ELSE IF FLess(45 * Scale, FAbs(helix_angle))
         THEN "ValueError: Helix angle must be between -45 and +45"
    ELSE "none"

\* the four-way dispatch to the core on is_internal and on
\* abs(helix_angle) > 0.01, the same in every adapter
DispatchToCore(is_internal, z, dp, pa, t, d, helix) ==
    LET is_helical == FLess(HelixThreshold, FAbs(helix)) IN
    IF is_internal
    THEN (IF is_helical THEN mbp_helical_internal_dp(z, dp, pa, t, d, helix)
          ELSE mbp_spur_internal_dp(z, dp, pa, t, d))
    ELSE (IF is_helical THEN mow_helical_external_dp(z, dp, pa, t, d, helix)
          ELSE mow_spur_external_dp(z, dp, pa, t, d))

\* 25.4 / module
ModuleToDP(m) == FDiv(Milli(25400), m)

\* calculate_measurement_over_pins(params): the core outcome, with every
\* exception replaced by RuntimeError (cause keeps the original one)
calculate_measurement_over_pins(params) ==
    LET dp_equivalent == IF params.is_metric THEN ModuleToDP(params.dp)
                         ELSE params.dp
        o == DispatchToCore(params.internal, params.z, dp_equivalent, params.pa, params.t,
                            params.d, params.helix)
    IN  IF IsErr(dp_equivalent)
        THEN [status |-> "raised", exc |-> RuntimeError,
              cause |-> ExcOf(dp_equivalent), core |-> NoOutcome]
        ELSE IF o.status = "raised"
        THEN [status |-> "raised", exc |-> RuntimeError, cause |-> o.exc,
              core |-> o]
        ELSE [status |-> "returned", exc |-> "none", cause |-> "none",
              core |-> o]

\* ---------------------------------------------------------------------
\* Adapters: what a request ends with
\* ---------------------------------------------------------------------

\* status: the HTTP status (0 for an adapter that is not an HTTP API);
\* error: "none" or the error reported; pin: the pin diameter the core was
\* given; substituted: best_pin_rule supplied the pin; core: the outcome of
\* the core call (NoOutcome when the core was not called)
Response(status, error, pin, substituted, core) ==
    [status |-> status, error |-> error, pin |-> pin,
     substituted |-> substituted, core |-> core]

\* the pin diameter an adapter computes with best_pin_rule, module units
\* converted first
BestPinFor(r) ==
    best_pin_rule(IF r.is_metric THEN ModuleToDP(r.dp) ELSE r.dp, r.pa)

\* Agent_api.py, POST /measurements
measurements(r) ==
    LET substituted == r.d = None /\ r.opt_in
        d == IF substituted THEN best_pin_rule(r.dp, r.pa) ELSE r.d
        o == DispatchToCore(r.internal, r.z, r.dp, r.pa, r.t, d, r.helix)
    IN  IF substituted /\ IsErr(d)
        THEN Response(500, ExcOf(d), None, TRUE, NoOutcome)
        ELSE IF d = None
        THEN Response(400, "Pin diameter d required unless best_pin=True",
                      None, FALSE, NoOutcome)
        ELSE IF o.status = "raised" THEN Response(500, o.exc, d, substituted, o)
        ELSE Response(200, "none", d, substituted, o)

\* the Field constraints of GearCalculationRequest (gear_api.py)
GearCalculationRequestValid(r) ==
    /\ 6 <= r.z /\ r.z <= 500
    /\ FLess(0, r.dp) /\ FLeq(r.dp, 100 * Scale)
    /\ FLeq(10 * Scale, r.pa) /\ FLeq(r.pa, 45 * Scale)
    /\ FLess(0, r.t)
    /\ (r.d = None \/ FLess(0, r.d))
    /\ FLeq(0 - 45 * Scale, r.helix) /\ FLeq(r.helix, 45 * Scale)

\* except ValueError -> 400, except Exception -> 500; of the exceptions that
\* reach the handler, RuntimeError and ZeroDivisionError are not ValueErrors
GearApiStatusOf(exc) ==
    IF exc \in {RuntimeError, ZeroDivisionError} THEN 500 ELSE 400

\* gear_api.py, POST /calculate
calculate_gear_measurement(r) ==
    IF ~GearCalculationRequestValid(r)
    THEN Response(422, "RequestValidationError", None, FALSE, NoOutcome)
    ELSE
    LET substituted == r.opt_in \/ r.d = None
        pin_diameter == IF substituted THEN BestPinFor(r) ELSE r.d
        invalid == GearParametersError(r.z, r.dp, r.pa, r.helix)
        c == calculate_measurement_over_pins([r EXCEPT !.d = pin_diameter])
    IN  IF IsErr(pin_diameter)
        THEN Response(GearApiStatusOf(ExcOf(pin_diameter)), ExcOf(pin_diameter),
                      None, substituted, NoOutcome)
        ELSE IF invalid # "none"
        THEN Response(GearApiStatusOf(invalid), invalid, pin_diameter,
                      substituted, NoOutcome)
        ELSE IF c.status = "raised"
        THEN Response(GearApiStatusOf(c.exc), c.exc, pin_diameter,
                      substituted, c.core)
        ELSE Response(200, "none", pin_diameter, substituted, c.core)

\* gear_cli_api.py, GearCliAPI.calculate_single
calculate_single(r) ==
    LET given == IF r.d = None THEN 0 ELSE r.d
        invalid == GearParametersError(r.z, r.dp, r.pa, r.helix)
        substituted == FLeq(given, 0) \/ r.opt_in
        pin_diameter == IF substituted THEN BestPinFor(r) ELSE given
        c == calculate_measurement_over_pins([r EXCEPT !.d = pin_diameter])
    IN  IF invalid # "none" THEN Response(0, invalid, None, FALSE, NoOutcome)
        ELSE IF IsErr(pin_diameter)
        THEN Response(0, ExcOf(pin_diameter), None, substituted, NoOutcome)
        ELSE IF c.status = "raised"
        THEN Response(0, c.exc, pin_diameter, substituted, c.core)
        ELSE Response(0, "none", pin_diameter, substituted, c.core)

\* the Field constraints of GearRequest (secure_api.py)
GearRequestValid(r) ==
    /\ 4 <= r.z /\ r.z <= 1000
    /\ FLess(0, r.dp) /\ FLeq(r.dp, 1000 * Scale)
    /\ FLeq(5 * Scale, r.pa) /\ FLeq(r.pa, 45 * Scale)
    /\ FLeq(0 - 45 * Scale, r.helix) /\ FLeq(r.helix, 45 * Scale)
    /\ FLess(0, r.t) /\ FLeq(r.t, 100 * Scale)
    /\ (r.d = None \/ (FLess(0, r.d) /\ FLeq(r.d, 50 * Scale)))

\* validation.py, validate_complete_external_gear /
\* validate_complete_internal_gear: right after validate_basic_parameters
\* returns, "if basic_result.sanitized:" reads an attribute that
\* ValidationResult does not have (its field is sanitized_values), so the
\* call raises AttributeError whatever the input; is_valid is what the rest
\* of the function computes from BOUNDS
validate_complete_gear(z, dp, pa, t, d, helix) ==
    [status |-> "raised",
     exc |-> "AttributeError: 'ValidationResult' object has no attribute 'sanitized'",
     is_valid |->
        /\ 4 <= z /\ z <= 1000
        /\ FLeq(Milli(100), dp) /\ FLeq(dp, 1000 * Scale)
        /\ FLeq(5 * Scale, pa) /\ FLeq(pa, 45 * Scale)
        /\ FLeq(0 - 45 * Scale, helix) /\ FLeq(helix, 45 * Scale)
        /\ FLeq(Milli(1), t) /\ FLeq(t, 100 * Scale)
        /\ FLess(t, FDiv(PiFix, dp))
        /\ FLeq(Milli(1), d) /\ FLeq(d, 50 * Scale)]

\* secure_api.py, safe_calculate_gear (behind POST /calculate)
safe_calculate_gear(r) ==
    IF ~GearRequestValid(r)
    THEN Response(422, "RequestValidationError", None, FALSE, NoOutcome)
    ELSE
    LET validation_result ==
            validate_complete_gear(r.z, r.dp, r.pa, r.t,
                                   IF r.d = None THEN 0 ELSE r.d, r.helix)
        dp == IF r.is_metric THEN ModuleToDP(r.dp) ELSE r.dp
        substituted == r.opt_in \/ r.d = None
        d == IF substituted THEN best_pin_rule(dp, r.pa) ELSE r.d
        t == IF ~r.internal /\ r.opt_in THEN FDiv(PiFix, FMul(2 * Scale, dp))
             ELSE r.t
        o == DispatchToCore(r.internal, r.z, dp, r.pa, t, d, r.helix)
    IN  IF validation_result.status = "raised"
        THEN Response(200, "Calculation error", None, FALSE, NoOutcome)
        ELSE IF ~validation_result.is_valid
        THEN Response(200, "GearValidationError", None, FALSE, NoOutcome)
        ELSE IF IsErr(d) THEN Response(200, "Calculation error", None, substituted,
                                       NoOutcome)
        ELSE IF o.status = "raised"
        THEN Response(200, "Calculation error", d, substituted, o)
        ELSE Response(200, "none", d, substituted, o)

\* ---------------------------------------------------------------------
\* API batches (gear_api.py /batch, GearCliAPI.calculate_batch)
\* ---------------------------------------------------------------------

\* Field(..., max_items=50) and "Maximum 50 calculations per batch"
BatchLimit == 50

\* the items with their 1-based positions, as enumerate() pairs them
Enumerated(responses) ==
    [i \in 1..Len(responses) |-> [position |-> i, resp |-> responses[i]]]

\* errors: f"Calculation {i+1}: {detail}" for each failed item
ErrorEntries(failed) ==
    [k \in 1..Len(failed) |->
        [position |-> failed[k].position, detail |-> failed[k].resp.error]]

Succeeded(e) == e.resp.error = "none"

Failed(e) == e.resp.error # "none"

\* summary: total_requested, successful, failed, errors
Summary(items, results, errors) ==
    [total_requested |-> Len(items), successful |-> Len(results),
     failed |-> Len(errors), errors |-> errors]

\* mutant: the loop has no try / except, the first failing item ends it
ApiBatchResponses_StopAtError(items) ==
    LET all == [i \in 1..Len(items) |-> calculate_gear_measurement(items[i])]
        bad == {i \in 1..Len(items) : all[i].error # "none"}
    IN  IF bad = {} THEN all
        ELSE SubSeq(all, 1, CHOOSE i \in bad : \A j \in bad : i <= j)

\* for i, calc_request in enumerate(request.calculations): what each item
\* ended with (a result, or the HTTPException caught)
ApiBatchResponses(items) ==
    [i \in 1..Len(items) |-> calculate_gear_measurement(items[i])]

\* gear_api.py, POST /batch
batch_calculate(items) ==
    IF Len(items) = 0
    THEN [status |-> 400, detail |-> "No calculations provided",
          processed |-> <<>>, results |-> <<>>, summary |-> Summary(<<>>, <<>>, <<>>)]
    ELSE IF Len(items) > BatchLimit
    THEN [status |-> 400, detail |-> "Maximum 50 calculations per batch",
          processed |-> <<>>, results |-> <<>>, summary |-> Summary(<<>>, <<>>, <<>>)]
    ELSE
    LET processed == Enumerated(ApiBatchResponses(items))
        results == SelectSeq(processed, Succeeded)
        errors == ErrorEntries(SelectSeq(processed, Failed))
    IN  [status |-> 200, detail |-> "none", processed |-> processed,
         results |-> results, summary |-> Summary(items, results, errors)]

\* gear_cli_api.py, GearCliAPI.calculate_batch
calculate_batch(parameters_list) ==
    LET processed ==
            Enumerated([i \in 1..Len(parameters_list) |->
                           calculate_single(parameters_list[i])])
        results == SelectSeq(processed, Succeeded)
        errors == ErrorEntries(SelectSeq(processed, Failed))
    IN  [status |-> 0, detail |-> "none", processed |-> processed,
         results |-> results,
         summary |-> Summary(parameters_list, results, errors)]

\* ---------------------------------------------------------------------
\* Inputs
\* ---------------------------------------------------------------------

Teeth == {0, 10, 11}
Pitches == {0 - 8 * Scale, 0, 8 * Scale}
PressureAngles == {0 - 20 * Scale, 0, 20 * Scale}
ToothDims == {0, Milli(250)}
PinDiameters == {0 - Milli(210), Milli(210)}
HelixAngles == {0 - 15 * Scale, 0 - Milli(10), 0, Milli(5), Milli(10),
                15 * Scale, 120 * Scale}

\* ---------------------------------------------------------------------
\* State
\* ---------------------------------------------------------------------

VARIABLES
    pc,         \* "idle", or "done" when the call has finished
    call,       \* the function called and its arguments
    outcome,    \* how the call ended: Returned(...) or Raised(...)
    inv_y,      \* inv_inverse: the target y of the running call
    inv_state,  \* inv_inverse: pc, x, iteration, err of the running call
    rt,         \* involute round trip: pc, x, y = inv(x), back = inv_inverse(y)
    bp,         \* best_pin_rule: pc, DP, alpha_deg and the value returned
    api,        \* one request to an adapter: pc, adapter, req and the response
    batch,      \* one batch: pc, adapter, the items and what the batch gave
    par,        \* concurrent solver calls: the Result objects, the threads
    agent,      \* GearMetrologyAgent: calculation_history and its callers
    sec,        \* secure_api: rate_limit_store, the users, the request served
    newton,     \* inv_inverse in units of 1e-17: pc, x, iteration, f, df, step
    mon         \* MetricsCollector: counters, deques, _lock and the threads

vars == <<pc, call, outcome, inv_y, inv_state, rt, bp, api, batch,
         par, agent, sec, newton, mon>>
solverVars == <<pc, call, outcome>>
invVars == <<inv_y, inv_state>>
\* the state of the other entry points, untouched by the core calls
extVars == <<rt, bp, api, batch>>
\* the state of the services around the core
svcVars == <<par, agent, sec, newton, mon>>

NoCall ==
    [fn |-> "none", z |-> 0, dp |-> 0, pa |-> 0, t |-> 0, d |-> 0,
     helix |-> 0, best_pin |-> "none", internal |-> FALSE]

InvIdle == [pc |-> "idle", x |-> 0, iteration |-> 0, err |-> 0]

RtIdle == [pc |-> "idle", x |-> 0, y |-> 0, back |-> 0]

BpIdle == [pc |-> "idle", DP |-> 0, alpha_deg |-> 0, out |-> 0]

ApiIdle ==
    [pc |-> "idle", adapter |-> "none",
     req |-> [z |-> 0, dp |-> 0, pa |-> 0, t |-> 0, d |-> 0, helix |-> 0,
              opt_in |-> FALSE, internal |-> FALSE, is_metric |-> FALSE],
     resp |-> Response(0, "none", None, FALSE, NoOutcome)]

BatchIdle == [pc |-> "idle", adapter |-> "none", items |-> <<>>, out |-> <<>>]

\* the callers of the concurrent solver calls: the consistency test, which
\* repeats one calculation, and a second caller of any solver
Threads == {"test", "other"}

\* the Result objects alive at one time: each caller holds at most one
ObjIds == 1..Cardinality(Threads)

\* a slot of the object table that holds no Result
Free == [method |-> "free"]

ThreadIdle == [pc |-> "idle", call |-> NoCall, ref |-> 0, exc |-> "none"]

ParIdle ==
    [heap |-> [o \in ObjIds |-> Free],
     th |-> [t \in Threads |-> ThreadIdle],
     results |-> <<>>]

\* a GearMetrologyAgent after __init__: lists.h is the list object
\* calculation_history, lists.c the list object get_calculation_history
\* made last; held names the list object the caller holds; op, params,
\* reference and exc describe the call made last
AgentIdle ==
    [lists |-> [h |-> <<>>, c |-> <<>>], held |-> "none", op |-> "none",
     params |-> [z |-> 0, dp |-> 0, pa |-> 0, t |-> 0, d |-> 0, helix |-> 0,
                 opt_in |-> FALSE, internal |-> FALSE, is_metric |-> FALSE],
     reference |-> 0, exc |-> "none"]

\* the API keys of the users created (api_keys is keyed by their hashes)
ApiKeys == {"key_alice", "key_bob"}

\* client_id = f"{user_info['username']}:{request.client.host}"
ClientOf(key) == IF key = "key_alice" THEN "alice:host" ELSE "bob:host"

Clients == {ClientOf(k) : k \in ApiKeys}

\* the requests in flight
Slots == {1, 2}

NoRequest == [pc |-> "idle", key |-> "none", endpoint |-> "none", status |-> 0,
              trace |-> <<>>]

\* secure_api after two create_user calls: now is the clock, store is
\* rate_limit_store (a client without entry has the empty list), users is
\* api_keys, req the requests in flight; admitted lists for each client
\* the times at which is_allowed answered True, last is the answer
\* is_allowed gave last
SecIdle ==
    [now |-> 0,
     store |-> [c \in Clients |-> <<>>],
     admitted |-> [c \in Clients |-> <<>>],
     last |-> [client |-> "none", allowed |-> FALSE],
     users |-> [k \in ApiKeys |->
                  [permissions |-> IF k = "key_alice" THEN {"calculate", "batch"}
                                   ELSE {"batch"},
                   request_count |-> 0]],
     req |-> [r \in Slots |-> NoRequest]]

\* the threads that use one MetricsCollector: two requests that call
\* ProductionManager.record_calculation, the monitoring thread of
\* ProductionManager and a caller of check_health / get_summary_statistics
RequestThreads == {"request1", "request2"}

ReaderThreads == {"background", "health"}

MonThreads == RequestThreads \cup ReaderThreads

\* the keys of error_counts: metrics.error_type or 'unknown'
ErrorKeys == {"ValueError", "unknown"}

NoMetrics == [id |-> 0, success |-> TRUE, error_type |-> "none"]

NoIter == [state |-> 0, index |-> 0]

\* a thread: where it is, the metrics it records, the value of
\* total_requests it has loaded and its deque iterator
MonThreadIdle ==
    [pc |-> "idle", metrics |-> NoMetrics, tmp |-> 0, it |-> NoIter]

\* MetricsCollector.__init__; state is the mutation counter a deque keeps
\* for its iterators, recorded lists every metrics appended so far, each
\* numbered by its place, and calls counts the calls of record_calculation
\* that were made
MonIdle ==
    [calculation_history |-> <<>>,
     request_times |-> <<>>,
     system_history |-> 0,
     error_counts |-> [k \in ErrorKeys |-> 0],
     total_requests |-> 0,
     total_errors |-> 0,
     lock |-> "none",
     state |-> [calculation_history |-> 0, request_times |-> 0],
     recorded |-> <<>>,
     calls |-> 0,
     th |-> [t \in MonThreads |-> MonThreadIdle]]

NewtonIdle ==
    [pc |-> "idle", x |-> 0, iteration |-> 0, f |-> 0, df |-> <<0, 1>>,
     step |-> 0]

Init ==
    /\ pc = "idle"
    /\ call = NoCall
    /\ outcome = NoOutcome
    /\ inv_y = 0
    /\ inv_state = InvIdle
    /\ rt = RtIdle
    /\ bp = BpIdle
    /\ api = ApiIdle
    /\ batch = BatchIdle
    /\ par = ParIdle
    /\ agent = AgentIdle
    /\ sec = SecIdle
    /\ newton = NewtonIdle
    /\ mon = MonIdle

\* ---------------------------------------------------------------------
\* Solver calls
\* ---------------------------------------------------------------------

Finished(c, o) ==
    /\ pc = "idle"
    /\ pc' = "done"
    /\ call' = c
    /\ outcome' = o
    /\ UNCHANGED <<invVars, extVars, svcVars>>

SpurExternal ==
    \E z \in Teeth, dp \in Pitches, pa \in PressureAngles,
       t \in ToothDims, d \in PinDiameters :
        Finished([NoCall EXCEPT !.fn = "mow_spur_external_dp", !.z = z,
                      !.dp = dp, !.pa = pa, !.t = t, !.d = d],
                 mow_spur_external_dp(z, dp, pa, t, d))

SpurInternal ==
    \E z \in Teeth, dp \in Pitches, pa \in PressureAngles,
       t \in ToothDims, d \in PinDiameters :
        Finished([NoCall EXCEPT !.fn = "mbp_spur_internal_dp", !.z = z,
                      !.dp = dp, !.pa = pa, !.t = t, !.d = d,
                      !.internal = TRUE],
                 mbp_spur_internal_dp(z, dp, pa, t, d))

HelicalExternal ==
    \E z \in Teeth, dp \in Pitches, pa \in PressureAngles,
       t \in ToothDims, d \in PinDiameters, helix \in HelixAngles :
        Finished([NoCall EXCEPT !.fn = "mow_helical_external_dp", !.z = z,
                      !.dp = dp, !.pa = pa, !.t = t, !.d = d,
                      !.helix = helix],
                 mow_helical_external_dp(z, dp, pa, t, d, helix))

HelicalInternal ==
    \E z \in Teeth, dp \in Pitches, pa \in PressureAngles,
       t \in ToothDims, d \in PinDiameters, helix \in HelixAngles :
        Finished([NoCall EXCEPT !.fn = "mbp_helical_internal_dp", !.z = z,
                      !.dp = dp, !.pa = pa, !.t = t, !.d = d,
                      !.helix = helix, !.internal = TRUE],
                 mbp_helical_internal_dp(z, dp, pa, t, d, helix))

RunSingle ==
    \E z \in Teeth, dp \in Pitches, pa \in PressureAngles,
       t \in ToothDims, d \in PinDiameters \cup {None},
       helix \in HelixAngles \cup {None},
       best_pin \in {"none", "rule"}, internal \in BOOLEAN :
        Finished([fn |-> "run_single", z |-> z, dp |-> dp, pa |-> pa,
                  t |-> t, d |-> d, helix |-> helix,
                  best_pin |-> best_pin, internal |-> internal],
                 run_single(z, dp, pa, t, d, helix, best_pin, internal))

\* the caller has taken the result (or handled the exception)
Return ==
    /\ pc = "done"
    /\ pc' = "idle"
    /\ call' = NoCall
    /\ outcome' = NoOutcome
    /\ UNCHANGED <<invVars, extVars, svcVars>>

Next ==
    \/ SpurExternal
    \/ SpurInternal
    \/ HelicalExternal
    \/ HelicalInternal
    \/ RunSingle
    \/ Return

Spec == Init /\ [][Next]_vars

\* ---------------------------------------------------------------------
\* inv_inverse, one loop body at a time
\* ---------------------------------------------------------------------

InvTargets == {0 - Milli(100), 0, Milli(15), Milli(77), Milli(100), Milli(500), MaxF}
InvSeeds == {0, DefaultSeed, Milli(1500)}

\* x = float(x0), then enter the for loop
InvInverseCall ==
    /\ inv_state.pc = "idle"
    /\ \E y \in InvTargets, x0 \in InvSeeds :
        /\ inv_y' = y
        /\ inv_state' = LoopStart(x0)
    /\ UNCHANGED <<solverVars, extVars, svcVars>>

\* one pass of the for loop: a body, or leaving the exhausted loop
InvInverseIterate ==
    /\ inv_state.pc = "loop"
    /\ inv_state' = LoopBody(inv_state, inv_y)
    /\ UNCHANGED <<inv_y, solverVars, extVars, svcVars>>

\* the caller has taken the value returned (or the exception)
InvInverseDone ==
    /\ inv_state.pc \in {"returned", "raised"}
    /\ inv_state' = InvIdle
    /\ inv_y' = 0
    /\ UNCHANGED <<solverVars, extVars, svcVars>>

NextInv ==
    \/ InvInverseCall
    \/ InvInverseIterate
    \/ InvInverseDone

SpecInv == Init /\ [][NextInv]_vars

\* ---------------------------------------------------------------------
\* inv and inv_inverse as a pair: y = inv(x), then inv_inverse(y)
\* ---------------------------------------------------------------------

\* the angles inv is applied to: 0.4 to 1.35 rad in steps of 0.025, of both
\* signs, and the two edges of the domain of the tangent.  (inv is flat
\* around 0, inv(x) ~ x^3 / 3: below 0.4 rad a model float does not resolve
\* y well enough to tell one x from the next.)
RtAngles ==
    {Milli(25 * n) : n \in 16..54} \cup {0 - Milli(25 * n) : n \in 16..54}
        \cup {HalfPi, 0 - HalfPi}

\* one step of the pair: at position from, with the angle x in hand, to the
\* record next
RtStep(from, x, next) ==
    /\ rt.pc = from
    /\ rt.x = x
    /\ rt' = next
    /\ UNCHANGED <<solverVars, invVars, bp, api, batch, svcVars>>

\* y = inv(x)
Involute ==
    \E x \in RtAngles :
        RtStep("idle", RtIdle.x,
               [pc |-> "inv", x |-> x, y |-> inv(x), back |-> 0])

\* inv_inverse(y) of that y, with the default seed x0 = 0.5
InvoluteInverse ==
    \E x \in RtAngles :
        RtStep("inv", x,
               [pc |-> "inverted", x |-> x, y |-> inv(x),
                back |-> inv_inverse(inv(x), DefaultSeed)])

\* the caller has taken the value
RtDone ==
    /\ rt.pc = "inverted"
    /\ rt' = RtIdle
    /\ UNCHANGED <<solverVars, invVars, bp, api, batch, svcVars>>

NextRt ==
    \/ Involute
    \/ InvoluteInverse
    \/ RtDone

SpecRt == Init /\ [][NextRt]_vars

\* ---------------------------------------------------------------------
\* best_pin_rule on its own
\* ---------------------------------------------------------------------

\* diametral pitches: 0, 4, 8 and -8
BpPitches == {0, 4 * Scale, 8 * Scale, 0 - 8 * Scale}

\* pressure angles: -5 to 30 degrees in steps of 0.5, and the angles a
\* thousandth of a degree outside each bucket
BpAngles ==
    {Milli(500 * n) : n \in (0 - 10)..60}
        \cup {Milli(13999), Milli(15001), Milli(18999), Milli(21001),
              Milli(23999), Milli(26001)}

BestPinRule ==
    /\ bp.pc = "idle"
    /\ \E DP \in BpPitches, alpha_deg \in BpAngles :
        bp' = [pc |-> "done", DP |-> DP, alpha_deg |-> alpha_deg,
               out |-> best_pin_rule(DP, alpha_deg)]
    /\ UNCHANGED <<solverVars, invVars, rt, api, batch, svcVars>>

\* the caller has taken the value (or the ZeroDivisionError)
BpDone ==
    /\ bp.pc = "done"
    /\ bp' = BpIdle
    /\ UNCHANGED <<solverVars, invVars, rt, api, batch, svcVars>>

NextBp ==
    \/ BestPinRule
    \/ BpDone

SpecBp == Init /\ [][NextBp]_vars

\* ---------------------------------------------------------------------
\* Batches
\* ---------------------------------------------------------------------

\* the longest batch tried
MaxItems == 3

\* the sequences over S of at most n items
SeqsUpTo(S, n) == UNION {[1..k -> S] : k \in 0..n}

\* CSV rows (z, dp, pa, t, d): a good one, one with z = 0, one whose z is
\* not a number, one with an empty d column
CsvRows ==
    LET GoodRow == [z |-> 10, dp |-> 8 * Scale, pa |-> 20 * Scale,
                    t |-> Milli(250), d |-> Milli(210)]
    IN  {GoodRow, [GoodRow EXCEPT !.z = 0], [GoodRow EXCEPT !.z = Unparsable],
         [GoodRow EXCEPT !.d = None]}

\* a request every adapter computes
GoodRequest ==
    [z |-> 10, dp |-> 8 * Scale, pa |-> 20 * Scale, t |-> Milli(250),
     d |-> Milli(210), helix |-> 0, opt_in |-> FALSE, internal |-> FALSE,
     is_metric |-> FALSE]

\* one the core fails on although every field is in range: a tooth thickness
\* near the largest float, t / Dp overflows
OverflowingRequest == [GoodRequest EXCEPT !.dp = 100 * Scale, !.t = MaxF]

\* items of a /batch request: each one is a GearCalculationRequest
ApiItems ==
    {GoodRequest, OverflowingRequest, [GoodRequest EXCEPT !.d = None],
     [GoodRequest EXCEPT !.z = 11, !.helix = 15 * Scale]}

\* a batch function was called with items and ended with out
BatchAnswered(adapter, items, out) ==
    /\ batch.pc = "idle"
    /\ batch' = [pc |-> "done", adapter |-> adapter, items |-> items,
                  out |-> out]
    /\ UNCHANGED <<solverVars, invVars, rt, bp, api, svcVars>>

RunCsv ==
    \E rows \in SeqsUpTo(CsvRows, MaxItems), best_pin \in {"none", "rule"},
       internal \in BOOLEAN :
        BatchAnswered("run_csv", rows, run_csv(rows, best_pin, 4, internal))

BatchCalculate ==
    \E items \in SeqsUpTo(ApiItems, MaxItems) :
        BatchAnswered("gear_api", items, batch_calculate(items))

\* the items of calculate_batch are dictionaries, nothing has validated them
CalculateBatch ==
    \E items \in SeqsUpTo(ApiItems \cup {[GoodRequest EXCEPT !.z = 0]},
                           MaxItems) :
        BatchAnswered("gear_cli_api", items, calculate_batch(items))

\* the caller has taken the output
BatchDone ==
    /\ batch.pc = "done"
    /\ batch' = BatchIdle
    /\ UNCHANGED <<solverVars, invVars, rt, bp, api, svcVars>>

NextBatch ==
    \/ RunCsv
    \/ BatchCalculate
    \/ CalculateBatch
    \/ BatchDone

SpecBatch == Init /\ [][NextBatch]_vars

\* ---------------------------------------------------------------------
\* Single requests to the adapters
\* ---------------------------------------------------------------------

\* a positive pitch (or module) so small that 25.4 / m overflows
TinyPitch == 1

\* requests: tooth counts 0, 10, 11; pitch 0, tiny or 8 (module 0, tiny or
\* 3.175); thickness 0 or 0.25; the pin given (0.21) or absent; helix 0 or
\* 15 degrees
ApiRequests ==
    {r \in [z : {0, 10, 11}, dp : {0, TinyPitch, 8 * Scale, Milli(3175)},
            pa : {20 * Scale}, t : {0, Milli(250)}, d : {None, Milli(210)},
            helix : {0, 15 * Scale}, opt_in : BOOLEAN, internal : BOOLEAN,
            is_metric : BOOLEAN] :
        (r.dp = 8 * Scale => ~r.is_metric) /\ (r.dp = Milli(3175) => r.is_metric)}

\* the adapters that take no unit system
InchRequests == {r \in ApiRequests : ~r.is_metric}

Answered(adapter, r, resp) ==
    /\ api.pc = "idle"
    /\ api' = [pc |-> "done", adapter |-> adapter, req |-> r, resp |-> resp]
    /\ UNCHANGED <<solverVars, invVars, rt, bp, batch, svcVars>>

\* MOP.py, run_single as an adapter
CliSingle ==
    \E r \in InchRequests :
        LET o == run_single(r.z, r.dp, r.pa, r.t, r.d, r.helix,
                            IF r.opt_in THEN "rule" ELSE "none", r.internal)
            substituted == r.d = None /\ r.opt_in
            d == IF substituted THEN best_pin_rule(r.dp, r.pa) ELSE r.d
        IN  Answered("run_single", r,
                IF o.exc = SystemExit
                THEN Response(0, SystemExit, None, FALSE, NoOutcome)
                ELSE IF o.steps = <<"best_pin_rule">>
                THEN Response(0, o.exc, None, substituted, NoOutcome)
                ELSE Response(0, o.exc, d, substituted, o))

\* MOP.py, run_csv on a file of one row, as an adapter
CliCsv ==
    \E r \in {q \in InchRequests : q.helix = 0} :
        LET out == run_csv(<<[z |-> r.z, dp |-> r.dp, pa |-> r.pa, t |-> r.t,
                              d |-> r.d]>>,
                           IF r.opt_in THEN "rule" ELSE "none", 4, r.internal)
            row == out.rows_out[1]
        IN  Answered("run_csv", r,
                Response(0, row.error, row.d,
                         r.d = None /\ row.kind = "result",
                         IF row.kind = "error"
                                /\ row.error \in {PinMissing, BadLiteral}
                         THEN NoOutcome
                         ELSE IF r.internal
                         THEN mbp_spur_internal_dp(r.z, r.dp, r.pa, r.t, row.d)
                         ELSE mow_spur_external_dp(r.z, r.dp, r.pa, r.t, row.d)))

Measurements == \E r \in InchRequests : Answered("Agent_api", r, measurements(r))

CalculateGearMeasurement ==
    \E r \in ApiRequests : Answered("gear_api", r, calculate_gear_measurement(r))

CalculateSingle ==
    \E r \in ApiRequests : Answered("gear_cli_api", r, calculate_single(r))

SafeCalculateGear ==
    \E r \in ApiRequests : Answered("secure_api", r, safe_calculate_gear(r))

\* the caller has taken the response
ApiDone ==
    /\ api.pc = "done"
    /\ api' = ApiIdle
    /\ UNCHANGED <<solverVars, invVars, rt, bp, batch, svcVars>>

NextApi ==
    \/ CliSingle
    \/ CliCsv
    \/ Measurements
    \/ CalculateGearMeasurement
    \/ CalculateSingle
    \/ SafeCalculateGear
    \/ ApiDone

SpecApi == Init /\ [][NextApi]_vars


\* ---------------------------------------------------------------------
\* Solver calls of several callers at once
\* ---------------------------------------------------------------------

\* for i in range(100): the repetitions of the consistency test
MaxRuns == 2

\* the calculation the consistency test repeats
TestCase ==
    [NoCall EXCEPT !.fn = "mow_helical_external_dp", !.z = 10,
         !.dp = 8 * Scale, !.pa = 20 * Scale, !.t = Scale \div 4,
         !.d = Milli(210), !.helix = 15 * Scale]

\* the calls of the second caller
ParCalls ==
    {TestCase,
     [TestCase EXCEPT !.helix = 0],
     [TestCase EXCEPT !.fn = "mow_spur_external_dp", !.z = 11, !.helix = 0],
     [TestCase EXCEPT !.fn = "mbp_helical_internal_dp", !.internal = TRUE],
     [TestCase EXCEPT !.fn = "mbp_spur_internal_dp", !.z = 0, !.helix = 0,
          !.internal = TRUE]}

\* the call takes the helical branch of a helical solver
TakesHelicalBranch(c) ==
    /\ c.fn \in {"mow_helical_external_dp", "mbp_helical_internal_dp"}
    /\ ~CoreIsSpur(c.helix)

\* the call run by itself, as the solver computes it
RunAlone(c) ==
    CASE c.fn = "mow_spur_external_dp" ->
             mow_spur_external_dp(c.z, c.dp, c.pa, c.t, c.d)
      [] c.fn = "mbp_spur_internal_dp" ->
             mbp_spur_internal_dp(c.z, c.dp, c.pa, c.t, c.d)
      [] c.fn = "mow_helical_external_dp" ->
             mow_helical_external_dp(c.z, c.dp, c.pa, c.t, c.d, c.helix)
      [] c.fn = "mbp_helical_internal_dp" ->
             mbp_helical_internal_dp(c.z, c.dp, c.pa, c.t, c.d, c.helix)

\* result = mow_spur_external_dp(z, trans_dp, trans_pa_deg, ...): the spur
\* call that constructs the Result of call c
SpurCallOf(c) ==
    IF ~TakesHelicalBranch(c)
    THEN [c EXCEPT !.fn = IF c.internal THEN "mbp_spur_internal_dp"
                          ELSE "mow_spur_external_dp",
                   !.helix = 0]
    ELSE LET conv == helical_conversions(c.pa, c.helix, c.dp)
         IN  [c EXCEPT !.fn = IF c.internal THEN "mbp_spur_internal_dp"
                               ELSE "mow_spur_external_dp",
                        !.dp = conv.trans_dp, !.pa = conv.trans_pa_deg,
                        !.t = TransverseDimension(c.t, c.helix),
                        !.helix = 0]

\* mutant: one module-level Result instance is filled in by every call
NewObject_SharedInstance(heap) == 1

\* return Result(...): a new object, distinct from every object alive
NewObject(heap) == CHOOSE o \in ObjIds : heap[o] = Free /\ \A p \in ObjIds : heap[p] = Free => o <= p

\* mutant: "result" is a module-level name, bound to the Result made last
OwnResult_LastCreated(ref, heap) ==
    CHOOSE o \in ObjIds : heap[o] # Free /\ \A p \in ObjIds : heap[p] # Free => p <= o

\* result = ...: a local name of the call, bound to the Result of its own
\* spur call
OwnResult(ref, heap) == ref

\* the caller calls the solver: the checks and the spur computation run
\* and the Result is constructed, or the call raises; alone is the outcome
\* of the call and made the Result its spur call constructs
ParCall(t, c, alone, made) ==
    /\ par.th[t].pc = "idle"
    /\ t = "test" => c = TestCase /\ Len(par.results) < MaxRuns
    /\ IF alone.status = "raised"
       THEN par' = [par EXCEPT !.th[t] = [pc |-> "raised", call |-> c,
                                          ref |-> 0, exc |-> alone.exc]]
       ELSE LET new == NewObject(par.heap)
            IN  par' = [par EXCEPT
                    !.heap[new] = made,
                    !.th[t] = [pc |-> IF TakesHelicalBranch(c)
                                      THEN "spur_returned" ELSE "constructed",
                               call |-> c, ref |-> new, exc |-> "none"]]
    /\ UNCHANGED <<solverVars, invVars, extVars, agent, sec, newton, mon>>

\* result.helix_deg = helix_deg ... result.helical_correction = 0.0
ParInject(t, c, attributes) ==
    /\ par.th[t].pc = "spur_returned"
    /\ par.th[t].call = c
    /\ LET target == OwnResult(par.th[t].ref, par.heap)
       IN  par' = [par EXCEPT
               !.heap[target] = attributes @@ par.heap[target],
               !.th[t].pc = "constructed"]
    /\ UNCHANGED <<solverVars, invVars, extVars, agent, sec, newton, mon>>

\* return result; the consistency test does results.append(result.MOW)
ParReturn(t) ==
    /\ par.th[t].pc = "constructed"
    /\ par' = [par EXCEPT
           !.th[t].pc = "returned",
           !.results = IF t = "test"
                       THEN Append(@, par.heap[par.th[t].ref].MOW) ELSE @]
    /\ UNCHANGED <<solverVars, invVars, extVars, agent, sec, newton, mon>>

\* the caller drops the Result (or has handled the exception); the object
\* is reclaimed when no caller refers to it
ParRelease(t) ==
    /\ par.th[t].pc \in {"returned", "raised"}
    /\ LET ref == par.th[t].ref
       IN  par' = [par EXCEPT
               !.th[t] = ThreadIdle,
               !.heap = IF ref = 0 \/ \E u \in Threads \ {t} : par.th[u].ref = ref
                        THEN @ ELSE [@ EXCEPT ![ref] = Free]]
    /\ UNCHANGED <<solverVars, invVars, extVars, agent, sec, newton, mon>>

\* the consistency test starts over
ParRestart ==
    /\ Len(par.results) = MaxRuns
    /\ par.th["test"].pc = "idle"
    /\ par' = [par EXCEPT !.results = <<>>]
    /\ UNCHANGED <<solverVars, invVars, extVars, agent, sec, newton, mon>>

SolverCall ==
    \E t \in Threads, c \in ParCalls :
        ParCall(t, c, RunAlone(c), RunAlone(SpurCallOf(c)).result)

StoreHelicalAttributes ==
    \E t \in Threads, c \in ParCalls :
        ParInject(t, c, HelicalAttributes(helical_conversions(c.pa, c.helix, c.dp),
                                          c.dp, c.pa, c.helix))

SolverReturn == \E t \in Threads : ParReturn(t)
Release == \E t \in Threads : ParRelease(t)

NextPar ==
    \/ SolverCall
    \/ StoreHelicalAttributes
    \/ SolverReturn
    \/ Release
    \/ ParRestart

SpecPar == Init /\ [][NextPar]_vars


\* ---------------------------------------------------------------------
\* The exit tests of inv_inverse at the scale of their tolerances
\* ---------------------------------------------------------------------
\* The tolerances 1e-16 and 1e-18 lie far below the resolution of a model
\* float. Here the loop is followed in units of 1e-17: x is the distance
\* from the seed, f and step are counted in the same units, and df is
\* m * 10^e with one digit m. The residual and the derivative that tan and
\* cos give at x are taken from the values below, on both sides of each
\* tolerance.

\* abs(step) < 1e-16 and abs(f) < 1e-16, in units of 1e-17
FineTol == 10

\* the distance from the seed that is followed
MaxOffset == 20

\* f = tan_x - x - y
FineResiduals == {0 - 20, 0 - 5, 0, 5, 20}

\* df = (1.0 / cos_x_squared) - 1.0: 0.0, 5e-19, 0.5, 1.0, 4.0
FineDerivatives ==
    {[m |-> 0, e |-> 0], [m |-> 5, e |-> 0 - 19], [m |-> 5, e |-> 0 - 1],
     [m |-> 1, e |-> 0], [m |-> 4, e |-> 0]}

\* abs(df) < 1e-18
BelowDfTol(df) == df.m = 0 \/ df.e < 0 - 18

\* step = f / df
FineStep(f, df) == RoundDiv(f * 10^(0 - df.e), df.m)

\* mutant: the convergence test accepts a small step or a small residual
\* (abs(step) < 1e-16 or abs(f) < 1e-16)
Converged_EitherSmall(step, f) == Abs(step) < FineTol \/ Abs(f) < FineTol

\* abs(step) < 1e-16 and abs(f) < 1e-16
Converged(step, f) == Abs(step) < FineTol /\ Abs(f) < FineTol

\* One pass of "for iteration in range(250)" with the residual f and the
\* derivative df found at s.x: the loop is left when the range is
\* exhausted, at the derivative guard, or after the update when the
\* convergence test holds.
NewtonBody(s, f, df) ==
    IF LoopExhausted(s.iteration) THEN [s EXCEPT !.pc = "returned"]
    ELSE IF BelowDfTol(df)
    THEN [s EXCEPT !.pc = "returned", !.iteration = @ + 1, !.f = f, !.df = df]
    ELSE LET step == FineStep(f, df)
         IN  [pc |-> IF Converged(step, f) THEN "returned" ELSE "loop",
              x |-> s.x - step,
              iteration |-> s.iteration + 1,
              f |-> f, df |-> df, step |-> step]

NewtonMoves(from, next) ==
    /\ newton.pc = from
    /\ Abs(next.x) <= MaxOffset
    /\ newton' = next
    /\ UNCHANGED <<solverVars, invVars, extVars, par, agent, sec, mon>>

\* x = float(x0)
NewtonCall == NewtonMoves("idle", [NewtonIdle EXCEPT !.pc = "loop"])

NewtonIterate ==
    \E f \in FineResiduals, df \in FineDerivatives :
        NewtonMoves("loop", NewtonBody(newton, f, df))

\* return x
NewtonDone == NewtonMoves("returned", NewtonIdle)

NextNewton ==
    \/ NewtonCall
    \/ NewtonIterate
    \/ NewtonDone

SpecNewton == Init /\ [][NextNewton]_vars


\* ---------------------------------------------------------------------
\* GearMetrologyAgent.calculation_history
\* ---------------------------------------------------------------------

\* the calculations the history is followed for
MaxCalcs == 3

\* the GearParameters of the calls: two that compute and one the core
\* rejects (GearParameters does not check the pin diameter)
AgentParams ==
    {GoodRequest,
     [GoodRequest EXCEPT !.z = 11, !.helix = 15 * Scale],
     [GoodRequest EXCEPT !.d = 0]}

\* reference_value of compare_with_reference
References == {0, Milli(1500)}

\* calc_result = CalculationResult(measurement_value=result.MOW, ...)
CalculationResultOf(params, c) ==
    [measurement_value |-> c.core.result.MOW,
     measurement_type |-> IF params.internal THEN "MBP" ELSE "MOP",
     method |-> c.core.result.method,
     gear_parameters |-> params]

\* mutant: get_calculation_history returns self.calculation_history
CopyOf_SameList(l) == l

\* self.calculation_history.copy(): a new list object
CopyOf(l) == "c"

AgentUnchanged == UNCHANGED <<solverVars, invVars, extVars, par, sec, newton, mon>>

\* calculate_measurement_over_pins(params), called directly or by
\* compare_with_reference; c is what the calculation gives. The result is
\* appended when the calculation returns; compare_with_reference then
\* divides by reference_value.
AgentCalculated(op, params, reference, c) ==
    /\ Len(agent.lists.h) < MaxCalcs
    /\ agent' = [agent EXCEPT
           !.op = op, !.params = params, !.reference = reference,
           !.lists.h = IF c.status = "returned"
                       THEN Append(@, CalculationResultOf(params, c)) ELSE @,
           !.exc = IF c.status = "raised" THEN c.exc
                   ELSE IF op = "compare_with_reference" /\ reference = 0
                   THEN ZeroDivisionError
                   ELSE "none"]
    /\ AgentUnchanged

AgentCalculate ==
    \E p \in AgentParams :
        AgentCalculated("calculate_measurement_over_pins", p, 0,
                        calculate_measurement_over_pins(p))

CompareWithReference ==
    \E p \in AgentParams, reference \in References :
        AgentCalculated("compare_with_reference", p, reference,
                        calculate_measurement_over_pins(p))

\* return self.calculation_history.copy()
GetCalculationHistory ==
    /\ agent' = [agent EXCEPT
           !.op = "get_calculation_history", !.exc = "none",
           !.lists[CopyOf("h")] = agent.lists.h,
           !.held = CopyOf("h")]
    /\ AgentUnchanged

\* self.calculation_history.clear()
ClearHistory ==
    /\ agent' = [agent EXCEPT !.op = "clear_history", !.exc = "none",
                              !.lists.h = <<>>]
    /\ AgentUnchanged

\* the caller changes the list it was given: history.pop(0), history.clear()
CallerMutatesList ==
    /\ agent.held # "none"
    /\ \E change \in {"pop", "clear"} :
           agent' = [agent EXCEPT
               !.op = "caller", !.exc = "none",
               !.lists[agent.held] =
                   IF change = "pop" /\ @ # <<>> THEN Tail(@) ELSE <<>>]
    /\ AgentUnchanged

NextAgent ==
    \/ AgentCalculate
    \/ CompareWithReference
    \/ GetCalculationHistory
    \/ ClearHistory
    \/ CallerMutatesList

SpecAgent == Init /\ [][NextAgent]_vars


\* ---------------------------------------------------------------------
\* secure_api: RateLimiter
\* ---------------------------------------------------------------------

\* limit and window of is_allowed (rate_limit_requests and
\* rate_limit_window by default), and the last clock value followed
RateLimit == 2
RateWindow == 3
MaxClock == 4

\* [timestamp for timestamp in rate_limit_store[client_id]
\*  if current_time - timestamp < window]
StillInWindow(timestamps, current_time, window) ==
    SelectSeq(timestamps, LAMBDA timestamp : current_time - timestamp < window)

\* mutant: the request is recorded before the limit is checked
is_allowed_RecordsDenied(store, client_id, current_time, limit, window) ==
    LET kept == StillInWindow(store[client_id], current_time, window)
    IN  [allowed |-> Len(kept) < limit,
         store |-> [store EXCEPT ![client_id] = Append(kept, current_time)]]

\* RateLimiter.is_allowed(client_id, limit, window) at time.time() =
\* current_time: the answer, and rate_limit_store after the call
is_allowed(store, client_id, current_time, limit, window) ==
    LET kept == StillInWindow(store[client_id], current_time, window)
    IN  IF Len(kept) >= limit
        THEN [allowed |-> FALSE, store |-> [store EXCEPT ![client_id] = kept]]
        ELSE [allowed |-> TRUE,
              store |-> [store EXCEPT ![client_id] = Append(kept, current_time)]]

\* sec after is_allowed(client_id) was called and answered
AfterIsAllowed(s, client_id, answer) ==
    [s EXCEPT !.store = answer.store,
              !.last = [client |-> client_id, allowed |-> answer.allowed],
              !.admitted[client_id] =
                  IF answer.allowed THEN Append(@, s.now) ELSE @]

SecUnchanged == UNCHANGED <<solverVars, invVars, extVars, par, agent, newton, mon>>

\* time.time() has moved on
Tick ==
    /\ sec.now < MaxClock
    /\ sec' = [sec EXCEPT !.now = @ + 1]
    /\ SecUnchanged

IsAllowed ==
    /\ \E client_id \in Clients :
           sec' = AfterIsAllowed(sec, client_id,
                      is_allowed(sec.store, client_id, sec.now, RateLimit,
                                 RateWindow))
    /\ SecUnchanged

NextLimiter ==
    \/ Tick
    \/ IsAllowed

SpecLimiter == Init /\ [][NextLimiter]_vars


\* ---------------------------------------------------------------------
\* secure_api: a request on its way to the calculation
\* ---------------------------------------------------------------------

\* the requests of one user that are followed
MaxCount == 3

Endpoints == {"/calculate", "/batch", "/auth/info"}

\* the bearer token of a request: the key of a user, a key no user has, or
\* none
Credentials == ApiKeys \cup {"bad_key", "none"}

\* mutant: the endpoints declare Depends(get_current_user)
DependsOn_NoRateLimit(endpoint) == "get_current_user"

\* user_info: dict = Depends(check_rate_limit) on /calculate and /batch,
\* Depends(get_current_user) on /auth/info; check_rate_limit itself
\* depends on get_current_user
DependsOn(endpoint) ==
    IF endpoint = "/auth/info" THEN "get_current_user" ELSE "check_rate_limit"

\* if 'calculate' not in user_info.get('permissions', []), and 'batch'
PermissionOf(endpoint) == IF endpoint = "/calculate" THEN "calculate" ELSE "batch"

\* APIKeyManager.validate_key: user_info (here the key that found it, or
\* "none") and api_keys after the call
validate_key(users, api_key) ==
    IF api_key \in DOMAIN users
    THEN [user_info |-> api_key,
          users |-> [users EXCEPT ![api_key].request_count = @ + 1]]
    ELSE [user_info |-> "none", users |-> users]

Rejected(q, status_code) == [q EXCEPT !.pc = "done", !.status = status_code]

Passed(q, stage, next) == [q EXCEPT !.pc = next, !.trace = Append(@, stage)]

Arrive ==
    /\ \E r \in Slots, key \in Credentials, endpoint \in Endpoints :
           /\ sec.req[r].pc = "idle"
           /\ key \in ApiKeys =>
                  sec.users[key].request_count
                      + Cardinality({o \in Slots : sec.req[o].key = key
                                         /\ sec.req[o].pc = "received"})
                      < MaxCount
           /\ sec' = [sec EXCEPT !.req[r] =
                          [NoRequest EXCEPT !.pc = "received", !.key = key,
                                            !.endpoint = endpoint]]
    /\ SecUnchanged

\* get_current_user
GetCurrentUser ==
    /\ \E r \in Slots :
           LET q == sec.req[r]
               v == validate_key(sec.users, q.key)
           IN  /\ q.pc = "received"
               /\ sec' = IF q.key = "none" \/ v.user_info = "none"
                         THEN [sec EXCEPT !.req[r] = Rejected(q, 401)]
                         ELSE [sec EXCEPT
                                  !.users = v.users,
                                  !.req[r] = Passed(q, "validate_key",
                                                    "authenticated")]
    /\ SecUnchanged

\* check_rate_limit
CheckRateLimit ==
    /\ \E r \in Slots :
           LET q == sec.req[r]
               answer == is_allowed(sec.store, ClientOf(q.key), sec.now,
                                    RateLimit, RateWindow)
               s == AfterIsAllowed(sec, ClientOf(q.key), answer)
           IN  /\ q.pc = "authenticated"
               /\ DependsOn(q.endpoint) = "check_rate_limit"
               /\ sec' = [s EXCEPT !.req[r] =
                             IF answer.allowed THEN Passed(q, "is_allowed", "admitted")
                             ELSE Rejected(q, 429)]
    /\ SecUnchanged

\* calculate_gear, batch_calculate: the permission check
CheckPermission ==
    /\ \E r \in Slots :
           LET q == sec.req[r]
           IN  /\ q.endpoint \in {"/calculate", "/batch"}
               /\ q.pc = (IF DependsOn(q.endpoint) = "check_rate_limit"
                          THEN "admitted" ELSE "authenticated")
               /\ sec' = [sec EXCEPT !.req[r] =
                             IF PermissionOf(q.endpoint)
                                    \in sec.users[q.key].permissions
                             THEN Passed(q, "permission", "permitted")
                             ELSE Rejected(q, 403)]
    /\ SecUnchanged

\* return safe_calculate_gear(gear_request), and the loop of /batch
Calculate ==
    /\ \E r \in Slots :
           /\ sec.req[r].pc = "permitted"
           /\ sec' = [sec EXCEPT !.req[r] =
                         [Passed(sec.req[r], "calculate", "done")
                              EXCEPT !.status = 200]]
    /\ SecUnchanged

\* get_user_info
GetUserInfo ==
    /\ \E r \in Slots :
           /\ sec.req[r].pc = "authenticated"
           /\ sec.req[r].endpoint = "/auth/info"
           /\ sec' = [sec EXCEPT !.req[r] = Rejected(sec.req[r], 200)]
    /\ SecUnchanged

\* the response has been sent
Respond ==
    /\ \E r \in Slots :
           /\ sec.req[r].pc = "done"
           /\ sec' = [sec EXCEPT !.req[r] = NoRequest]
    /\ SecUnchanged

NextSec ==
    \/ Arrive
    \/ GetCurrentUser
    \/ CheckRateLimit
    \/ CheckPermission
    \/ Calculate
    \/ GetUserInfo
    \/ Respond

SpecSec == Init /\ [][NextSec]_vars


\* ---------------------------------------------------------------------
\* production_monitoring: MetricsCollector used by several threads
\* ---------------------------------------------------------------------

\* calls of record_calculation that are followed
MaxRecords == 2

\* max_history of the collector (1000 in ProductionManager)
MaxHistory == 1

\* deque(maxlen=max_history).append
DequeAppend(d, x, maxlen) ==
    IF maxlen = 0 THEN <<>>
    ELSE IF Len(d) = maxlen THEN Append(Tail(d), x)
    ELSE Append(d, x)

\* mutant: the with statement lets every thread in
CanEnter_Always(lock, t) == TRUE

\* with self._lock: threading.Lock is free
CanEnter(lock, t) == lock = "none"

\* the body a with self._lock statement guards
BodyOf(at) ==
    CASE at = "rc_enter" -> "rc_append"
      [] at = "rt_enter" -> "rt_append"
      [] at = "sh_enter" -> "sh_append"
      [] at = "ss_enter" -> "ss_read"

\* what a thread does after the with statement
AfterExit(t, at) ==
    CASE at = "rc_exit" -> "rt_enter"
      [] at = "rt_exit" -> "idle"
      [] at = "sh_exit" -> (IF t = "health" THEN "hc_rt" ELSE "idle")
      [] at = "ss_exit" -> "idle"

\* the deque a list comprehension iterates
DequeOf(at) == IF at = "gm_ch" THEN "calculation_history" ELSE "request_times"

\* what follows a list comprehension
AfterIteration(at) ==
    CASE at = "gm_rt" -> "gm_ch"
      [] at = "gm_ch" -> "sh_enter"
      [] at = "hc_rt" -> "idle"

\* iter(deque)
IterOf(m, name) == [state |-> m.state[name], index |-> 0]

MonUnchanged == UNCHANGED <<solverVars, invVars, extVars, par, agent, sec, newton>>

\* ProductionManager.record_calculation builds the CalculationMetrics
StartRecordCalculation ==
    /\ \E t \in RequestThreads, success \in BOOLEAN,
          error_type \in {"ValueError", "none"} :
           /\ mon.th[t].pc = "idle"
           /\ mon.calls < MaxRecords
           /\ success => error_type = "none"
           /\ mon' = [mon EXCEPT
                         !.calls = @ + 1,
                         !.th[t] = [MonThreadIdle EXCEPT
                                       !.pc = "rc_enter",
                                       !.metrics = [id |-> 0,
                                                    success |-> success,
                                                    error_type |-> error_type]]]
    /\ MonUnchanged

\* with self._lock: __enter__
Enter ==
    /\ \E t \in MonThreads :
           /\ mon.th[t].pc \in {"rc_enter", "rt_enter", "sh_enter", "ss_enter"}
           /\ CanEnter(mon.lock, t)
           /\ mon' = [mon EXCEPT !.lock = t,
                                 !.th[t].pc = BodyOf(mon.th[t].pc)]
    /\ MonUnchanged

\* with self._lock: __exit__
Exit ==
    /\ \E t \in MonThreads :
           /\ mon.th[t].pc \in {"rc_exit", "rt_exit", "sh_exit", "ss_exit"}
           /\ mon' = [mon EXCEPT
                         !.lock = "none",
                         !.th[t].pc = AfterExit(t, mon.th[t].pc),
                         !.th[t].it = IF AfterExit(t, mon.th[t].pc) = "hc_rt"
                                      THEN IterOf(mon, "request_times")
                                      ELSE NoIter]
    /\ MonUnchanged

\* self.calculation_history.append(metrics)
AppendCalculation ==
    /\ \E t \in RequestThreads :
           LET metrics == [mon.th[t].metrics EXCEPT !.id = Len(mon.recorded) + 1]
           IN  /\ mon.th[t].pc = "rc_append"
               /\ mon' = [mon EXCEPT
                             !.calculation_history =
                                 DequeAppend(@, metrics, MaxHistory),
                             !.state.calculation_history = @ + 1,
                             !.recorded = Append(@, metrics),
                             !.th[t].metrics = metrics,
                             !.th[t].pc = "rc_load"]
    /\ MonUnchanged

\* self.total_requests += 1: the load
LoadTotal ==
    /\ \E t \in RequestThreads :
           /\ mon.th[t].pc = "rc_load"
           /\ mon' = [mon EXCEPT !.th[t].tmp = mon.total_requests,
                                 !.th[t].pc = "rc_store"]
    /\ MonUnchanged

\* self.total_requests += 1: the store; if not metrics.success
StoreTotal ==
    /\ \E t \in RequestThreads :
           /\ mon.th[t].pc = "rc_store"
           /\ mon' = [mon EXCEPT
                         !.total_requests = mon.th[t].tmp + 1,
                         !.th[t].tmp = 0,
                         !.th[t].pc = IF mon.th[t].metrics.success
                                      THEN "rc_exit" ELSE "rc_error"]
    /\ MonUnchanged

\* self.total_errors += 1; self.error_counts[error_type or 'unknown'] += 1
CountError ==
    /\ \E t \in RequestThreads :
           LET key == IF mon.th[t].metrics.error_type = "none" THEN "unknown"
                      ELSE mon.th[t].metrics.error_type
           IN  /\ mon.th[t].pc = "rc_error"
               /\ mon' = [mon EXCEPT !.total_errors = @ + 1,
                                     !.error_counts[key] = @ + 1,
                                     !.th[t].pc = "rc_exit"]
    /\ MonUnchanged

\* record_request_time: self.request_times.append(...)
AppendRequestTime ==
    /\ \E t \in RequestThreads :
           /\ mon.th[t].pc = "rt_append"
           /\ mon' = [mon EXCEPT
                         !.request_times =
                             DequeAppend(@, mon.th[t].metrics.id, MaxHistory),
                         !.state.request_times = @ + 1,
                         !.th[t].metrics = NoMetrics,
                         !.th[t].pc = "rt_exit"]
    /\ MonUnchanged

\* get_current_system_metrics is called, by _background_monitoring or by
\* check_health, and starts its list comprehension over request_times
StartSystemMetrics ==
    /\ \E t \in ReaderThreads :
           /\ mon.th[t].pc = "idle"
           /\ mon' = [mon EXCEPT
                         !.th[t] = [MonThreadIdle EXCEPT
                                       !.pc = "gm_rt",
                                       !.it = IterOf(mon, "request_times")]]
    /\ MonUnchanged

\* one next() of a deque iterator: RuntimeError when the deque was
\* mutated since iter(), else the next element or the end of the loop
IterNext ==
    /\ \E t \in ReaderThreads :
           LET th == mon.th[t]
               name == DequeOf(th.pc)
               after == AfterIteration(th.pc)
           IN  /\ th.pc \in {"gm_rt", "gm_ch", "hc_rt"}
               /\ mon' = [mon EXCEPT !.th[t] =
                             IF mon.state[name] # th.it.state
                             THEN [th EXCEPT !.pc = "RuntimeError", !.it = NoIter]
                             ELSE IF th.it.index < Len(mon[name])
                             THEN [th EXCEPT !.it.index = @ + 1]
                             ELSE [th EXCEPT
                                      !.pc = after,
                                      !.it = IF after = "gm_ch"
                                             THEN IterOf(mon, "calculation_history")
                                             ELSE NoIter]]
    /\ MonUnchanged

\* self.system_history.append(metrics)
AppendSystemMetrics ==
    /\ \E t \in ReaderThreads :
           /\ mon.th[t].pc = "sh_append"
           /\ mon' = [mon EXCEPT
                         !.system_history = IF @ < MaxHistory THEN @ + 1 ELSE @,
                         !.th[t].pc = "sh_exit"]
    /\ MonUnchanged

\* get_summary_statistics is called
StartSummary ==
    /\ mon.th["health"].pc = "idle"
    /\ mon' = [mon EXCEPT !.th["health"] =
                              [MonThreadIdle EXCEPT !.pc = "ss_enter"]]
    /\ MonUnchanged

\* get_summary_statistics: the body under the lock, which reads the
\* counters and the history and changes nothing
ReadSummary ==
    /\ mon.th["health"].pc = "ss_read"
    /\ mon' = [mon EXCEPT !.th["health"].pc = "ss_exit"]
    /\ MonUnchanged

\* the RuntimeError of a deque iterator ends the call: _background_monitoring
\* logs it and sleeps, the caller of check_health receives it
DequeMutated ==
    /\ \E t \in ReaderThreads :
           /\ mon.th[t].pc = "RuntimeError"
           /\ mon' = [mon EXCEPT !.th[t] = MonThreadIdle]
    /\ MonUnchanged

NextMon ==
    \/ StartRecordCalculation
    \/ Enter
    \/ Exit
    \/ AppendCalculation
    \/ LoadTotal
    \/ StoreTotal
    \/ CountError
    \/ AppendRequestTime
    \/ StartSystemMetrics
    \/ IterNext
    \/ AppendSystemMetrics
    \/ StartSummary
    \/ ReadSummary
    \/ DequeMutated

SpecMon == Init /\ [][NextMon]_vars


\* ---------------------------------------------------------------------
\* Properties
\* ---------------------------------------------------------------------

SpurFns == {"mow_spur_external_dp", "mbp_spur_internal_dp"}
HelicalFns == {"mow_helical_external_dp", "mbp_helical_internal_dp"}

\* the fields of the Result dataclass
ResultFields ==
    {"method", "MOW", "Dp", "Db", "E", "inv_alpha", "inv_beta",
     "beta_rad", "beta_deg", "C2", "factor"}

\* the attributes the helical branch adds
HelicalFields ==
    {"helix_deg", "normal_pa_deg", "normal_dp", "trans_pa_deg", "trans_dp",
     "base_helix_deg", "helical_correction"}

SpurDone == pc = "done" /\ call.fn \in SpurFns
HelicalDone == pc = "done" /\ call.fn \in HelicalFns

\* all five inputs of the finished call are strictly positive
AllFivePositive ==
    call.z > 0 /\ call.dp > 0 /\ call.pa > 0 /\ call.t > 0 /\ call.d > 0

\* the spur solver of the same kind (external / internal) as the finished call
SpurOf(z, dp, pa, t, d) ==
    IF call.internal THEN mbp_spur_internal_dp(z, dp, pa, t, d)
    ELSE mow_spur_external_dp(z, dp, pa, t, d)

\* C1: in every result of a spur solver the method is the 2-pin method iff
\* teeth is even and the odd-tooth method iff teeth is odd, whatever the
\* other inputs are.
C1_ParityDecidesMethod ==
    (SpurDone /\ outcome.status = "returned") =>
        /\ (outcome.result.method = "2-pin") <=> (call.z % 2 = 0)
        /\ (outcome.result.method = "odd tooth") <=> (call.z % 2 = 1)

\* C1 witness: a spur call on an odd tooth count has returned the odd-tooth
\* method.
C1_Witness ==
    /\ SpurDone
    /\ outcome.status = "returned"
    /\ call.z % 2 = 1
    /\ outcome.result.method = "odd tooth"

\* C2 (as claimed): a spur solver raises InvalidParameter whenever one of its
\* five inputs is not strictly positive, and returns a result only when all
\* five are strictly positive.
C2_SpurRejectsNonPositive ==
    SpurDone =>
        /\ ~AllFivePositive => outcome.exc = InvalidParameter
        /\ outcome.status = "returned" => AllFivePositive

\* C3 (as claimed): in every solver InvalidParameter is raised before any
\* computation: on rejected input no stage, not even the helical
\* normal-to-transverse conversion, has run and there is no result.
C3_RejectedBeforeComputation ==
    (pc = "done" /\ call.fn \in SpurFns \cup HelicalFns
        /\ outcome.exc = InvalidParameter) =>
        /\ outcome.steps = <<>>
        /\ outcome.result = NoResult

\* C4: a helical solver called with helixDeg = 0 ends exactly as the spur
\* solver of the same kind does on the same five parameters (same
\* measurement, same derived geometry).
C4_HelixZeroEqualsSpur ==
    (HelicalDone /\ call.helix = 0) =>
        outcome = SpurOf(call.z, call.dp, call.pa, call.t, call.d)

\* C4 witness: a helical solver called with helixDeg = 0 on valid
\* parameters has returned a measurement.
C4_Witness ==
    /\ HelicalDone
    /\ call.helix = 0
    /\ AllFivePositive
    /\ outcome.status = "returned"
    /\ IsFinite(outcome.result.MOW)

CarriesHelix ==
    /\ HelicalFields \subseteq DOMAIN outcome.result
    /\ outcome.result.helix_deg = call.helix
    /\ outcome.result.normal_pa_deg = call.pa
    /\ outcome.result.normal_dp = call.dp
    /\ LET conv == helical_conversions(call.pa, call.helix, call.dp)
       IN  /\ outcome.result.trans_pa_deg = conv.trans_pa_deg
           /\ outcome.result.trans_dp = conv.trans_dp
           /\ outcome.result.base_helix_deg = conv.base_helix_deg

\* C6 (as claimed): every result a helical solver returns, for every signed
\* helixDeg including those treated as spur, carries the helix angle, the
\* normal-plane values and the transverse / base-helix values.
C6_EveryResultCarriesHelix ==
    (HelicalDone /\ outcome.status = "returned") => CarriesHelix

\* C6 (amended): a result a helical solver returns for |helixDeg| >= 0.01
\* carries the caller's helix angle unchanged, the normal-plane values and
\* the transverse / base-helix values; a result for |helixDeg| < 0.01 is the
\* plain spur Result and carries none of them.
C6_HelicalResultCarriesHelix ==
    (HelicalDone /\ outcome.status = "returned") =>
        IF CoreIsSpur(call.helix)
        THEN DOMAIN outcome.result = ResultFields
        ELSE CarriesHelix

\* C6 witness: a helical solver has returned a result for a negative helix
\* angle, and one could be returned for a helix treated as spur.
C6_Witness ==
    /\ HelicalDone
    /\ outcome.status = "returned"
    /\ call.helix = 0 - 15 * Scale
    /\ outcome.result.helix_deg = 0 - 15 * Scale

\* C7 (as claimed): a helical solver raises InvalidParameter iff one of
\* teeth, normalDP, normalPressureAngle, dimension, pinDiameter is not
\* strictly positive, whatever the helix angle is.
C7_HelicalRejectsLikeSpur ==
    HelicalDone => ((outcome.exc = InvalidParameter) <=> ~AllFivePositive)

\* C8 (as claimed): |helixDeg| < 0.01 is the one spur test: whichever entry
\* point took the call (a core helical solver or the CLI's run_single), the
\* gear was computed as a spur gear (no helical attributes on the result)
\* iff |helixDeg| < 0.01.
C8_OneSpurPredicate ==
    (pc = "done" /\ call.fn \in HelicalFns \cup {"run_single"}
        /\ outcome.status = "returned") =>
        (("helix_deg" \notin DOMAIN outcome.result)
            <=> FLess(FAbs(HelixOrZero(call.helix)), HelixThreshold))

\* C9: inv_inverse always terminates: every step of a call that is in its
\* loop either ends the call or runs one more loop body, and no call runs
\* more than 250 bodies.
C9_InvInverseTerminates ==
    [][(inv_state.pc = "loop") =>
          /\ inv_state'.iteration <= MaxIter
          /\ \/ inv_state'.pc \in {"returned", "raised"}
             \/ /\ inv_state'.pc = "loop"
                /\ inv_state'.iteration = inv_state.iteration + 1]_vars

\* C9 witness: a call has run all 250 loop bodies without meeting the
\* convergence test and has then returned.
C9_Witness ==
    /\ inv_state.pc = "returned"
    /\ inv_state.iteration = MaxIter

\* C10 (as claimed): inv_inverse has no failure outcome: no call ends with
\* an exception.
C10_InvInverseNeverRaises ==
    inv_state.pc # "raised"

\* C11 (as claimed): inv is guarded at the edge of its domain: evaluated at
\* x = +pi/2 or x = -pi/2 it fails with a domain error and returns no value.
C11_InvGuardedAtEdge ==
    (rt.pc # "idle" /\ Abs(rt.x) = HalfPi) => rt.y = DomainErr

\* the round trip tolerance: 1e-8 lies below the resolution of a model
\* float, a hundredth of a radian is allowed instead
RoundTripTol == Scale \div 100

\* C12 (as claimed): for every x in (-1.4, 1.4), inv_inverse(inv(x)) with
\* the default seed returns a value within the tolerance of x.
C12_InvoluteRoundTrip ==
    (rt.pc = "inverted" /\ Abs(rt.x) < Milli(1400)) =>
        /\ IsFinite(rt.back)
        /\ Abs(rt.back - rt.x) <= RoundTripTol

\* C13: in every result of a spur solver, factor is present and is 1.0 for
\* an even tooth count and cos(pi / (2 * teeth)) for an odd one, C2 is
\* Db / cos(beta), and the measurement is C2 * factor + d for an external
\* gear and C2 * factor - d for an internal gear.
C13_ResultFieldsRelated ==
    (SpurDone /\ outcome.status = "returned") =>
        LET r == outcome.result
            half_angle == FDiv(PiFix, FMul(2 * Scale, ToFloat(call.z)))
        IN  /\ "factor" \in DOMAIN r
            /\ r.factor = (IF call.z % 2 = 0 THEN One ELSE FCos(half_angle))
            /\ r.C2 = FDiv(r.Db, FCos(r.beta_rad))
            /\ r.MOW = (IF call.internal THEN FSub(FMul(r.C2, r.factor), call.d)
                        ELSE FAdd(FMul(r.C2, r.factor), call.d))

\* C13 witness: an internal spur call on an odd tooth count and valid
\* parameters has returned a measurement with a factor below 1.
C13_Witness ==
    /\ SpurDone
    /\ outcome.status = "returned"
    /\ call.internal
    /\ call.z % 2 = 1
    /\ AllFivePositive
    /\ outcome.result.factor < One
    /\ IsFinite(outcome.result.MOW)

\* C14 (as claimed): the method of every result any solver returns is
\* "2-pin" or "odd-tooth".
C14_MethodIsOneOfTwo ==
    (pc = "done" /\ call.fn \in SpurFns \cup HelicalFns
        /\ outcome.status = "returned") =>
        outcome.result.method \in {"2-pin", "odd-tooth"}

\* C14 (amended): the method of every result any solver returns is "2-pin"
\* or "odd tooth", the two labels of the code.
C14_MethodIsTwoPinOrOddTooth ==
    (pc = "done" /\ call.fn \in SpurFns \cup HelicalFns
        /\ outcome.status = "returned") =>
        outcome.result.method \in {"2-pin", "odd tooth"}

\* C14 witness: a helical solver has returned a result for an odd tooth
\* count and a helix of 15 degrees, labelled "odd tooth".
C14_Witness ==
    /\ HelicalDone
    /\ outcome.status = "returned"
    /\ call.z % 2 = 1
    /\ call.helix = 15 * Scale
    /\ outcome.result.method = "odd tooth"

\* the point at a on the straight line through (14.5, 1.728) and (25, 1.70),
\* in two-point form
OnAnchorLine(a) ==
    RoundDiv(Milli(1728) * (Milli(25000) - a) + Milli(1700) * (a - Milli(14500)),
             Milli(25000) - Milli(14500))

AlmostEqual3(a, b) == IsFinite(a) /\ IsFinite(b) /\ 2000 * Abs(a - b) <= Scale

\* C16 (as claimed): to 3 decimal places best_pin_rule gives 1.728 / DP at
\* 20 degrees, 1.68 / DP at 14.5 degrees and 1.92 / DP at 25 degrees (for
\* DP = 8: 0.216, 0.210 and 0.240).
C16_BestPinTestValues ==
    (bp.pc = "done" /\ bp.DP > 0) =>
        /\ bp.alpha_deg = 20 * Scale =>
                AlmostEqual3(bp.out, FDiv(Milli(1728), bp.DP))
        /\ bp.alpha_deg = Milli(14500) =>
                AlmostEqual3(bp.out, FDiv(Milli(1680), bp.DP))
        /\ bp.alpha_deg = 25 * Scale =>
                AlmostEqual3(bp.out, FDiv(Milli(1920), bp.DP))

\* C18: run_csv never aborts on partial failure: whatever the mix and order of
\* succeeding and failing rows, the call returns, each input row has exactly
\* one output row (its result or its error string) and the output file holds
\* all of them. Stated for the files that have a row.
C18_CsvNeverAborts ==
    (batch.pc = "done" /\ batch.adapter = "run_csv" /\ Len(batch.items) > 0) =>
        /\ batch.out.exc = "none"
        /\ Len(batch.out.rows_out) = Len(batch.items)
        /\ \A i \in 1..Len(batch.items) : batch.out.rows_out[i].i = i
        /\ batch.out.written = batch.out.rows_out

\* the batches of the two API batch functions
ApiBatchDone ==
    batch.pc = "done" /\ batch.adapter \in {"gear_api", "gear_cli_api"}

\* what item i of the finished batch ends with when it is calculated alone
AloneResponse(i) ==
    IF batch.adapter = "gear_api" THEN calculate_gear_measurement(batch.items[i])
    ELSE calculate_single(batch.items[i])

\* every item was processed, the counts add up to the number of items, and
\* the error entries are exactly the failing items, one entry each, naming
\* the 1-based position
BatchAccountsForEveryItem ==
    LET n == Len(batch.items)
        summary == batch.out.summary
    IN  /\ Len(batch.out.processed) = n
        /\ summary.total_requested = n
        /\ summary.successful + summary.failed = n
        /\ summary.successful = Len(batch.out.results)
        /\ summary.failed = Len(summary.errors)
        /\ \A i \in 1..n :
              Cardinality({k \in 1..Len(summary.errors) :
                              summary.errors[k].position = i})
                  = IF AloneResponse(i).error # "none" THEN 1 ELSE 0
        /\ \A k \in 1..Len(summary.errors) :
              /\ summary.errors[k].position \in 1..n
              /\ summary.errors[k].detail
                     = AloneResponse(summary.errors[k].position).error

\* C19: API batch processing (gear_api batch_calculate and
\* GearCliAPI.calculate_batch) continues past a failing item and records its
\* error: for a batch of n items (one that batch_calculate takes up: 1 to 50
\* items; any n for calculate_batch) every item is processed regardless of
\* earlier failures, successful + failed = total_requested = n, and each
\* failing item has exactly one error entry naming its 1-based position.
C19_BatchContinuesPastFailure ==
    (ApiBatchDone /\ (batch.adapter = "gear_api" =>
                        Len(batch.items) \in 1..BatchLimit)) =>
        /\ batch.out.detail = "none"
        /\ BatchAccountsForEveryItem

\* C19 witness: a /batch request of three items whose second item fails in
\* the core and whose third is calculated after it; the summary counts two
\* successes and one failure, recorded as position 2.
C19_Witness ==
    /\ batch.pc = "done"
    /\ batch.adapter = "gear_api"
    /\ Len(batch.items) = 3
    /\ batch.items[2] = OverflowingRequest
    /\ batch.out.summary.successful = 2
    /\ batch.out.summary.failed = 1
    /\ batch.out.summary.errors[1].position = 2
    /\ batch.out.processed[3].resp.error = "none"

\* C17: the best-pin heuristic is advisory only: in every adapter, a request
\* that lacks a pin diameter and has not opted in (use_best_pin / best_pin /
\* --best-pin rule) is never computed with a best-pin value substituted; it is
\* rejected.
C17_NoSilentBestPin ==
    (api.pc = "done" /\ api.req.d = None /\ ~api.req.opt_in) =>
        /\ ~api.resp.substituted
        /\ api.resp.core = NoOutcome
        /\ api.resp.error # "none"

\* C20: in the single-request HTTP APIs (gear_api /calculate, Agent_api
\* /measurements), whenever the core rejects the parameters with
\* InvalidParameter, the response is a client error (4xx), never a server
\* error (5xx).
C20_InvalidParameterIsClientError ==
    (api.pc = "done" /\ api.adapter \in {"gear_api", "Agent_api"}
        /\ api.resp.core.exc = InvalidParameter) =>
        (400 <= api.resp.status /\ api.resp.status < 500)

C22_CallsAreIndependent ==
    /\ \A t, u \in Threads :
           (t # u /\ par.th[t].ref # 0 /\ par.th[u].ref # 0)
           => par.th[t].ref # par.th[u].ref
    /\ \A t \in Threads :
           /\ par.th[t].pc = "returned"
                  => par.heap[par.th[t].ref] = RunAlone(par.th[t].call).result
           /\ par.th[t].pc = "raised"
                  => RunAlone(par.th[t].call).exc = par.th[t].exc

\* C22 witness: both callers hold a Result at once, of different calls,
\* one of them with the helical attributes stored on it
C22_Witness ==
    /\ \A t \in Threads : par.th[t].pc = "returned"
    /\ par.th["test"].call # par.th["other"].call
    /\ TakesHelicalBranch(par.th["test"].call)
    /\ ~TakesHelicalBranch(par.th["other"].call)

\* C23: a loop body of inv_inverse that runs before the cap and is not
\* stopped by the derivative guard replaces x by x - step, and it leaves
\* the loop exactly when the step and the residual, the residual being the
\* one found at the x before the update, are both below 1e-16; with only
\* one of the two below it the loop goes on. The x returned is the updated
\* x.
C23_StopsWhenStepAndResidualSmall ==
    [][(/\ newton.pc = "loop"
        /\ ~LoopExhausted(newton.iteration)
        /\ ~BelowDfTol(newton'.df)) =>
          /\ newton'.x = newton.x - newton'.step
          /\ newton'.step = FineStep(newton'.f, newton'.df)
          /\ newton'.pc =
                 (IF Abs(newton'.step) < FineTol /\ Abs(newton'.f) < FineTol
                  THEN "returned" ELSE "loop")]_vars

\* C23 witness: after bodies in which only the step or only the residual
\* was small, the loop was left before the cap by a body in which both
\* were small, with a step that still moved x
C23_Witness ==
    /\ newton.pc = "returned"
    /\ newton.iteration \in 3..(MaxIter - 1)
    /\ ~BelowDfTol(newton.df)
    /\ Abs(newton.step) \in 1..(FineTol - 1)
    /\ Abs(newton.f) < FineTol

\* df = (1.0 / cos_x_squared) - 1.0: the derivative found at x
DerivativeAt(x) == FSub(FDiv(One, FMul(FCos(x), FCos(x))), One)

\* C24: a loop body of inv_inverse that finds a derivative below the
\* tolerance ends the call at once: the call returns, with the x the body
\* started from, and no division by the derivative takes place (no
\* exception ends the call). This holds for the first body as for any
\* later one.
C24_DerivativeGuardReturnsCurrentX ==
    [][(/\ inv_state.pc = "loop"
        /\ ~LoopExhausted(inv_state.iteration)
        /\ ~IsErr(DerivativeAt(inv_state.x))
        /\ FLess(FAbs(DerivativeAt(inv_state.x)), DfTol)) =>
          /\ inv_state'.pc = "returned"
          /\ inv_state'.x = inv_state.x
          /\ inv_state'.err = 0
          /\ inv_state'.iteration = inv_state.iteration + 1]_vars

\* C24 witness: a call with the seed 0 and a target other than 0 has
\* returned from its first loop body, and returned the seed
C24_Witness ==
    /\ inv_state.pc = "returned"
    /\ inv_state.iteration = 1
    /\ inv_state.x = 0
    /\ inv_y # 0
    /\ FLess(FAbs(DerivativeAt(inv_state.x)), DfTol)

\* C25 (as claimed): in secure_api, an otherwise valid request that sets
\* use_best_pin and gives no pin diameter passes validation and is computed
\* with the pin of best_pin_rule: the response reports no error and a core
\* result.
C25_BestPinRequestIsComputed ==
    (/\ api.pc = "done"
     /\ api.adapter = "secure_api"
     /\ GearRequestValid(api.req)
     /\ api.req.opt_in
     /\ api.req.d = None) =>
        /\ api.resp.error = "none"
        /\ api.resp.substituted
        /\ api.resp.pin = BestPinFor(api.req)
        /\ api.resp.core.status = "returned"

\* C26: every step of an agent changes calculation_history as its call
\* says: a calculation that returns (called directly or through
\* compare_with_reference) appends its result at the end; a calculation
\* that fails raises RuntimeError and leaves the history as it was;
\* clear_history empties it; get_calculation_history and every change the
\* caller makes to the list it was given leave it as it was. So the history
\* is the results of the calculations that returned since the last clear,
\* in call order.
C26_HistoryIsSuccessfulCalculations ==
    [][LET before == agent.lists.h
           after == agent'.lists.h
           c == calculate_measurement_over_pins(agent'.params)
       IN  CASE agent'.op \in {"calculate_measurement_over_pins",
                                "compare_with_reference"} ->
                    IF c.status = "returned"
                    THEN /\ after = Append(before, CalculationResultOf(agent'.params, c))
                         /\ agent'.exc # RuntimeError
                    ELSE /\ after = before
                         /\ agent'.exc = RuntimeError
             [] agent'.op = "clear_history" -> after = <<>>
             [] OTHER -> after = before]_vars

\* C26 witness: the history holds the results of two different
\* calculations in call order, the caller has emptied the list it was
\* given, and the call made last was a calculation that failed
C26_Witness ==
    /\ Len(agent.lists.h) = 2
    /\ agent.lists.h[1].gear_parameters = GoodRequest
    /\ agent.lists.h[2].gear_parameters # GoodRequest
    /\ agent.held = "c"
    /\ agent.lists.c = <<>>
    /\ agent.op = "calculate_measurement_over_pins"
    /\ agent.exc = RuntimeError

\* the calls of client c that is_allowed admitted at a time in [a, a + window)
AdmittedIn(c, a) ==
    {i \in DOMAIN sec.admitted[c] :
         a <= sec.admitted[c][i] /\ sec.admitted[c][i] < a + RateWindow}

\* C27: with a clock that never goes back, is_allowed admits at most limit
\* calls of a client in any window [a, a + window); a call is admitted
\* exactly when fewer than limit admitted calls of the client are less than
\* window old, so a denied call is not recorded and uses up no quota; and a
\* call changes the record of no other client.
C27_AtMostLimitPerWindow ==
    [][/\ \A c \in Clients, a \in 0..MaxClock :
              Cardinality(AdmittedIn(c, a))' <= RateLimit
       /\ sec'.now = sec.now =>
              LET c == sec'.last.client
                  recent == {i \in DOMAIN sec.admitted[c] :
                                 sec.now - sec.admitted[c][i] < RateWindow}
              IN  /\ sec'.last.allowed <=> Cardinality(recent) < RateLimit
                  /\ ~sec'.last.allowed =>
                         /\ sec'.admitted = sec.admitted
                         /\ Len(sec'.store[c]) = Cardinality(recent)
                  /\ \A other \in Clients \ {c} :
                         /\ sec'.store[other] = sec.store[other]
                         /\ sec'.admitted[other] = sec.admitted[other]]_vars

\* C27 witness: a client that used up its quota and was denied has been
\* admitted again once its first requests had left the window, is now
\* denied again, and the other client has been admitted meanwhile
C27_Witness ==
    /\ Len(sec.admitted["alice:host"]) = 2 * RateLimit
    /\ sec.last = [client |-> "alice:host", allowed |-> FALSE]
    /\ sec.now = RateWindow
    /\ sec.admitted["bob:host"] # <<>>

\* C28: in secure_api a request to /calculate or /batch reaches the
\* calculation only after its key was validated, the rate limiter admitted
\* it and the permission was found, in this order; request_count of a user
\* grows by one exactly when a request with that user's key passes
\* get_current_user, which each request does once; and a step of a request
\* whose key is missing or invalid changes neither rate_limit_store nor
\* api_keys.
C28_CalculationBehindAuthLimitPermission ==
    [][/\ \A r \in Slots :
              LET trace == sec'.req[r].trace
              IN  /\ (\E i \in DOMAIN trace : trace[i] = "calculate") =>
                         trace = <<"validate_key", "is_allowed", "permission",
                                   "calculate">>
                  /\ Cardinality({i \in DOMAIN trace :
                                      trace[i] = "validate_key"}) <= 1
       /\ \A k \in ApiKeys :
              sec'.users[k].request_count - sec.users[k].request_count =
                  Cardinality({r \in Slots : /\ sec.req[r].key = k
                                             /\ sec.req[r].pc = "received"
                                             /\ sec'.req[r].pc # "received"})
       /\ (\A r \in Slots :
               sec'.req[r] # sec.req[r] =>
                   (sec.req[r].key \notin ApiKeys /\ sec'.req[r].key \notin ApiKeys))
              => (sec'.store = sec.store /\ sec'.users = sec.users)]_vars

\* C28 witness: one request has gone through all three checks and the
\* calculation, another was turned away by the rate limiter, and the
\* user's request_count counts both
C28_Witness ==
    /\ sec.req[1].status = 200
    /\ sec.req[1].endpoint = "/calculate"
    /\ sec.req[1].key = "key_alice"
    /\ sec.req[2].status = 429
    /\ sec.req[2].key = "key_alice"
    /\ sec.users["key_alice"].request_count = MaxCount

\* C29: whenever no thread is between the append of record_calculation
\* and the end of its counter updates, and so whenever
\* get_summary_statistics reads under the lock: total_errors <=
\* total_requests, total_errors is the sum of error_counts and the number
\* of failed records, total_requests is the number of records made, and
\* calculation_history holds the min(total_requests, max_history) most
\* recent records in order.
C29_CountersAgreeWithRecords ==
    LET updating == \E t \in RequestThreads :
                        mon.th[t].pc \in {"rc_load", "rc_store", "rc_error"}
        n == Len(mon.recorded)
        kept == Len(mon.calculation_history)
    IN  /\ mon.th["health"].pc = "ss_read" => ~updating
        /\ ~updating =>
               /\ mon.total_errors <= mon.total_requests
               /\ mon.total_errors =
                      mon.error_counts["ValueError"] + mon.error_counts["unknown"]
               /\ mon.total_errors =
                      Cardinality({i \in 1..n : ~mon.recorded[i].success})
               /\ mon.error_counts["ValueError"] =
                      Cardinality({i \in 1..n :
                                      /\ ~mon.recorded[i].success
                                      /\ mon.recorded[i].error_type = "ValueError"})
               /\ mon.total_requests = n
               /\ kept = (IF n < MaxHistory THEN n ELSE MaxHistory)
               /\ mon.calculation_history = SubSeq(mon.recorded, n - kept + 1, n)

\* C29 witness: every followed call has been recorded by threads that ran
\* at the same time, one of them failed, and the history has dropped its
\* oldest record
C29_Witness ==
    /\ \A t \in RequestThreads : mon.th[t].pc = "idle"
    /\ mon.total_requests = MaxRecords
    /\ mon.total_errors = 1
    /\ MaxHistory < MaxRecords
    /\ Len(mon.calculation_history) = MaxHistory

\* C30: a thread that iterates calculation_history or request_times never
\* finds that another thread has appended to the deque since the iteration
\* began.
C30_NoAppendDuringIteration ==
    \A t \in ReaderThreads :
        mon.th[t].pc \in {"gm_rt", "gm_ch", "hc_rt"} =>
            mon.th[t].it.state = mon.state[DequeOf(mon.th[t].pc)]

====
